---- MODULE Spec2Model ----
(***************************************************************************)
(* Multi-provider completion gateway: per-provider circuit breaker,        *)
(* fallback executor (unary and streaming), provider adapter error         *)
(* mapping, model router and completion orchestrator.                      *)
(*                                                                         *)
(* A request is a coroutine; one step of the model is one loop iteration   *)
(* of the executor or the arrival of one upstream event.  Steps of         *)
(* different requests interleave freely, which includes every schedule     *)
(* the event loop can produce.                                             *)
(***************************************************************************)
EXTENDS Integers, Sequences, FiniteSets, TLC

\* Python None for an optional number / an optional string
None == -1
NoneStr == "None"

(***************************************************************************)
(* Bounds of the model                                                     *)
(***************************************************************************)
\* CircuitBreakerState(failure_threshold=...): 5 by default, 2 and 3 in the tests
failure_threshold == 2
\* CircuitBreakerState(timeout_seconds=...): the cooldown, in clock ticks
timeout_seconds == 2
\* chunks one streaming request delivers at most
MaxChunks == 2

\* the clock runs from 0 to MaxTime: a breaker opened at 1 can still cool down
MaxTime == timeout_seconds + 1
\* failure_count is capped one failure above the threshold
MaxFailureCount == failure_threshold + 1

(***************************************************************************)
(* Circuit breaker (fallback_handler.py, CircuitBreakerState)              *)
(***************************************************************************)
Providers == {"p1", "p2"}

\* CircuitBreakerState.__init__.  last_failure_time is left out: it is written
\* by record_success and record_failure and read by nothing that decides.
NewBreaker ==
    [state |-> "closed", failure_count |-> 0, opened_at |-> None]

\* A success that clears the counter only when it closes a half_open breaker
record_success_sticky(b) ==
    [b EXCEPT !.failure_count = IF b.state = "half_open" THEN 0 ELSE b.failure_count,
              !.state = IF b.state = "half_open" THEN "closed" ELSE b.state,
              !.opened_at = IF b.state = "half_open" THEN None ELSE b.opened_at]

\* CircuitBreakerState.record_success
record_success(b) ==
    [b EXCEPT !.failure_count = 0,
              !.state = IF b.state = "half_open" THEN "closed" ELSE b.state,
              !.opened_at = IF b.state = "half_open" THEN None ELSE b.opened_at]

\* The threshold test of record_failure written with > for >=
record_failure_late(b, t) ==
    LET n == b.failure_count + 1
        opens == b.state = "closed" /\ n > failure_threshold
    IN [b EXCEPT !.failure_count = n,
                 !.state = IF opens THEN "open" ELSE b.state,
                 !.opened_at = IF opens THEN t ELSE b.opened_at]

\* CircuitBreakerState.record_failure at time t
record_failure(b, t) ==
    LET n == b.failure_count + 1
        opens == b.state = "closed" /\ n >= failure_threshold
    IN [b EXCEPT !.failure_count = n,
                 !.state = IF opens THEN "open" ELSE b.state,
                 !.opened_at = IF opens THEN t ELSE b.opened_at]

\* The cooldown test of can_attempt written with > for >=
can_attempt_late(b, t) ==
    IF b.state = "closed" THEN [ret |-> TRUE, b |-> b]
    ELSE IF b.state = "open"
         THEN IF t - b.opened_at > timeout_seconds
              THEN [ret |-> TRUE, b |-> [b EXCEPT !.state = "half_open"]]
              ELSE [ret |-> FALSE, b |-> b]
    ELSE IF b.state = "half_open" THEN [ret |-> TRUE, b |-> b]
    ELSE [ret |-> FALSE, b |-> b]

\* A can_attempt that never probes an open breaker
can_attempt_no_probe(b, t) ==
    IF b.state \in {"closed", "half_open"} THEN [ret |-> TRUE, b |-> b]
    ELSE [ret |-> FALSE, b |-> b]

\* CircuitBreakerState.can_attempt at time t: the value returned and the
\* breaker as the call leaves it
can_attempt(b, t) ==
    IF b.state = "closed" THEN [ret |-> TRUE, b |-> b]
    ELSE IF b.state = "open"
         THEN IF t - b.opened_at >= timeout_seconds
              THEN [ret |-> TRUE, b |-> [b EXCEPT !.state = "half_open"]]
              ELSE [ret |-> FALSE, b |-> b]
    ELSE IF b.state = "half_open" THEN [ret |-> TRUE, b |-> b]
    ELSE [ret |-> FALSE, b |-> b]

(***************************************************************************)
(* Provider adapter (provider_adapters.py)                                 *)
(***************************************************************************)
HttpStatus == {200, 302, 400, 401, 403, 404, 408, 429, 500, 503}

\* What the upstream does to one HTTP call: it answers with a status, the
\* client times out (httpx.TimeoutException) or the transport fails
\* (another httpx.HTTPError).
Upstream ==
    [ev : {"status"}, code : HttpStatus]
        \cup {[ev |-> "TimeoutException", code |-> 0],
              [ev |-> "HTTPError", code |-> 0]}

\* ProviderAdapter._categorize_error
_categorize_error(status_code) ==
    IF status_code = 400 THEN "invalid_request"
    ELSE IF status_code = 401 THEN "authentication"
    ELSE IF status_code = 403 THEN "permission"
    ELSE IF status_code = 404 THEN "not_found"
    ELSE IF status_code = 408 THEN "timeout"
    ELSE IF status_code = 429 THEN "rate_limit"
    ELSE IF 500 <= status_code /\ status_code < 600 THEN "server_error"
    ELSE "unknown"

\* An outcome of an adapter call: exc is "return" or the class raised
Outcome(exc, status_code, error_type) ==
    [exc |-> exc, status_code |-> status_code, error_type |-> error_type]

\* The body of the try block of ProviderAdapter.complete: it returns the
\* parsed response or raises.
adapter_complete_try(up) ==
    IF up.ev = "status"
    THEN IF up.code # 200
         THEN Outcome("ProviderError", up.code, _categorize_error(up.code))
         ELSE Outcome("return", 200, NoneStr)
    ELSE Outcome(up.ev, None, NoneStr)

\* ProviderAdapter.complete: the except clauses, in order, applied to what
\* the try block raised.  ProviderError is an Exception and neither httpx
\* class, so the error raised for a non-200 status is caught by the last
\* clause and raised again as (500, unknown).
adapter_complete(up) ==
    LET t == adapter_complete_try(up)
    IN IF t.exc = "return" THEN t
       ELSE IF t.exc = "TimeoutException" THEN Outcome("ProviderError", 408, "timeout")
       ELSE IF t.exc = "HTTPError" THEN Outcome("ProviderError", 500, "network")
       ELSE Outcome("ProviderError", 500, "unknown")

\* ProviderAdapter.stream_complete up to the first line: the status check and
\* the two except clauses (there is no catch-all clause here).
stream_open(up) ==
    IF up.ev = "status"
    THEN IF up.code # 200
         THEN Outcome("ProviderError", up.code, _categorize_error(up.code))
         ELSE Outcome("return", 200, NoneStr)
    ELSE IF up.ev = "TimeoutException" THEN Outcome("ProviderError", 408, "timeout")
    ELSE Outcome("ProviderError", 500, "network")

\* What can end an open stream other than the [DONE] sentinel: a transport
\* failure, mapped by the except clauses of stream_complete, or any other
\* exception, which stream_complete lets through.
StreamFailure == {"TimeoutException", "HTTPError", "Exception"}

stream_break(f) ==
    IF f = "TimeoutException" THEN Outcome("ProviderError", 408, "timeout")
    ELSE IF f = "HTTPError" THEN Outcome("ProviderError", 500, "network")
    ELSE Outcome("Exception", None, NoneStr)

(***************************************************************************)
(* Model registry (model_registry.py)                                      *)
(***************************************************************************)
\* ModelSpec, with the fields routing and execution read
ModelSpec(id, provider, tools, json, ctx, rel, cost, speed) ==
    [id |-> id, provider |-> provider, supports_tools |-> tools,
     supports_json_schema |-> json, max_context_tokens |-> ctx,
     reliability_tier |-> rel, cost_tier |-> cost, speed_tier |-> speed]

\* RouteCondition: always is TRUE for True (FALSE for None and False); any and
\* all are lists of one-key clauses, empty for None.
RouteCondition(always, any, all) == [always |-> always, any |-> any, all |-> all]

\* One clause {key: value} of a condition list; the value sits in the field of
\* its type.
Clause(key, bval, sval, ival) == [key |-> key, bval |-> bval, sval |-> sval, ival |-> ival]

\* RouteSpec
RouteSpec(name, when, use_model, fallback_models, timeout_ms) ==
    [name |-> name, when |-> when, use_model |-> use_model,
     fallback_models |-> fallback_models, timeout_ms |-> timeout_ms]

\* model_id in ModelRegistry.models_by_id
validate_model_exists(reg, model_id) ==
    \E k \in 1..Len(reg.models) : reg.models[k].id = model_id

\* ModelRegistry.get_model: models_by_id is built by a dict comprehension over
\* config.models, so the last entry with an id is the one looked up.
get_model(reg, model_id) ==
    IF validate_model_exists(reg, model_id)
    THEN LET k == CHOOSE j \in 1..Len(reg.models) :
                    /\ reg.models[j].id = model_id
                    /\ \A l \in (j+1)..Len(reg.models) : reg.models[l].id # model_id
         IN reg.models[k]
    ELSE ModelSpec(NoneStr, NoneStr, FALSE, FALSE, 0, 0, 0, 0)

\* ModelRegistry.get_routes
get_routes(reg) == reg.routes

(***************************************************************************)
(* Model router (model_router.py)                                          *)
(***************************************************************************)
\* RoutingContext
RoutingContext(msg, code, att, rag, tokens, tools, fmt) ==
    [last_user_message |-> msg, has_code_block |-> code, has_attachments |-> att,
     rag_enabled |-> rag, estimated_context_tokens |-> tokens,
     tools_enabled |-> tools, response_format_required |-> fmt]

\* RoutingDecision (route_reason, a display string, is left out)
RoutingDecision(primary, fallbacks, name, timeout_ms) ==
    [primary_model_id |-> primary, fallback_model_ids |-> fallbacks,
     route_name |-> name, timeout_ms |-> timeout_ms]

\* re.search(pattern, message, re.IGNORECASE) on the patterns and messages of
\* the model: a pattern is a literal word, "(" does not compile.
regex_search(pattern, message) ==
    /\ pattern # "("
    /\ \/ pattern = message
       \/ pattern = "def" /\ message = "def f"

\* ModelRouter._evaluate_condition
_evaluate_condition(condition, context) ==
    IF condition.key = "has_code_block" THEN context.has_code_block = condition.bval
    ELSE IF condition.key = "has_attachments" THEN context.has_attachments = condition.bval
    ELSE IF condition.key = "rag_enabled" THEN context.rag_enabled = condition.bval
    ELSE IF condition.key = "tools_enabled" THEN context.tools_enabled = condition.bval
    ELSE IF condition.key = "response_format_required"
         THEN context.response_format_required = condition.sval
    ELSE IF condition.key = "context_est_tokens_gt"
         THEN context.estimated_context_tokens > condition.ival
    ELSE IF condition.key = "contains_regex"
         THEN regex_search(condition.sval, context.last_user_message)
    ELSE FALSE

\* ModelRouter._matches_route
_matches_route(route, context) ==
    LET condition == route.when
    IN IF condition.always THEN TRUE
       ELSE IF condition.any # <<>>
            THEN \E k \in 1..Len(condition.any) : _evaluate_condition(condition.any[k], context)
       ELSE IF condition.all # <<>>
            THEN \A k \in 1..Len(condition.all) : _evaluate_condition(condition.all[k], context)
       ELSE FALSE

\* ModelRouter._validate_capabilities
_validate_capabilities(model, context) ==
    IF context.tools_enabled /\ ~model.supports_tools THEN FALSE
    ELSE IF context.response_format_required = "json_schema" /\ ~model.supports_json_schema
         THEN FALSE
    ELSE IF context.estimated_context_tokens > model.max_context_tokens THEN FALSE
    ELSE TRUE

\* s with the entries that fail keep dropped, order kept (a list comprehension
\* with a condition)
RECURSIVE Filter(_, _)
Filter(s, keep) ==
    IF s = <<>> THEN <<>>
    ELSE LET rest == Filter(Tail(s), keep)
         IN IF Head(s) \in keep THEN <<Head(s)>> \o rest ELSE rest

\* tuple comparison k1 < k2 of two sort keys of three numbers
KeyLess(k1, k2) ==
    \/ k1[1] < k2[1]
    \/ k1[1] = k2[1] /\ k1[2] < k2[2]
    \/ k1[1] = k2[1] /\ k1[2] = k2[2] /\ k1[3] < k2[3]

\* list.sort(key=...) on a list of [key, val] pairs: ascending and stable
RECURSIVE SortPairs(_)
SortPairs(s) ==
    IF s = <<>> THEN <<>>
    ELSE LET n == Len(s)
             done == SortPairs(SubSeq(s, 1, n - 1))
             x == s[n]
             k == Cardinality({j \in 1..Len(done) : ~KeyLess(x.key, done[j].key)})
         IN SubSeq(done, 1, k) \o <<x>> \o SubSeq(done, k + 1, Len(done))

\* the first n entries of s (s[:n])
Take(s, n) == SubSeq(s, 1, IF Len(s) < n THEN Len(s) ELSE n)

\* The fallback filter of a rule with the capability check left out
_resolve_fallback_chain_unchecked(reg, fallback_model_ids, context) ==
    Filter(fallback_model_ids,
           {id \in {fallback_model_ids[k] : k \in 1..Len(fallback_model_ids)} :
                validate_model_exists(reg, id)})

\* ModelRouter._resolve_fallback_chain
_resolve_fallback_chain(reg, fallback_model_ids, context) ==
    Filter(fallback_model_ids,
           {id \in {fallback_model_ids[k] : k \in 1..Len(fallback_model_ids)} :
                /\ validate_model_exists(reg, id)
                /\ _validate_capabilities(get_model(reg, id), context)})

\* ModelRouter._get_fallback_models
_get_fallback_models(reg, primary_model, context) ==
    LET candidates == Filter(reg.models,
                             {m \in {reg.models[k] : k \in 1..Len(reg.models)} :
                                 m.id # primary_model.id /\ _validate_capabilities(m, context)})
        keyed == [k \in 1..Len(candidates) |->
                    [key |-> <<-candidates[k].reliability_tier,
                               -candidates[k].speed_tier,
                               candidates[k].cost_tier>>,
                     val |-> candidates[k].id]]
        sorted == SortPairs(keyed)
    IN Take([k \in 1..Len(sorted) |-> sorted[k].val], 3)

\* What route gives when config.models[0] raises IndexError: no decision
RouteRaises == RoutingDecision(NoneStr, <<>>, "IndexError", 0)

\* ModelRouter._get_default_route
_get_default_route(reg, context) ==
    LET candidates == Filter(reg.models,
                             {m \in {reg.models[k] : k \in 1..Len(reg.models)} :
                                 _validate_capabilities(m, context)})
        keyed == [k \in 1..Len(candidates) |->
                    [key |-> <<-candidates[k].speed_tier,
                               candidates[k].cost_tier,
                               -candidates[k].reliability_tier>>,
                     val |-> candidates[k].id]]
        sorted == SortPairs(keyed)
        ids == [k \in 1..Len(sorted) |-> sorted[k].val]
    IN IF candidates = <<>>
       THEN IF reg.models = <<>> THEN RouteRaises
            ELSE RoutingDecision(reg.models[1].id, <<>>, "fallback_no_match", 30000)
       ELSE RoutingDecision(ids[1], Take(Tail(ids), 3), "default", 30000)

\* route with the rules searched from the bottom: the last usable rule wins
route_last_match(reg, context, user_model_override) ==
    LET model == get_model(reg, user_model_override)
        routes == get_routes(reg)
        usable == {k \in 1..Len(routes) :
                     /\ _matches_route(routes[k], context)
                     /\ validate_model_exists(reg, routes[k].use_model)
                     /\ _validate_capabilities(get_model(reg, routes[k].use_model), context)}
    IN IF /\ user_model_override # NoneStr
          /\ validate_model_exists(reg, user_model_override)
          /\ _validate_capabilities(model, context)
       THEN RoutingDecision(user_model_override,
                            _get_fallback_models(reg, model, context),
                            "user_override", 60000)
       ELSE IF usable # {}
            THEN LET rt == routes[CHOOSE k \in usable : \A j \in usable : k >= j]
                 IN RoutingDecision(rt.use_model,
                                    _resolve_fallback_chain(reg, rt.fallback_models, context),
                                    rt.name, rt.timeout_ms)
       ELSE _get_default_route(reg, context)

\* route with the override taken whenever the model exists, capabilities
\* unchecked
route_override_unvalidated(reg, context, user_model_override) ==
    LET model == get_model(reg, user_model_override)
        routes == get_routes(reg)
        usable == {k \in 1..Len(routes) :
                     /\ _matches_route(routes[k], context)
                     /\ validate_model_exists(reg, routes[k].use_model)
                     /\ _validate_capabilities(get_model(reg, routes[k].use_model), context)}
    IN IF /\ user_model_override # NoneStr
          /\ validate_model_exists(reg, user_model_override)
       THEN RoutingDecision(user_model_override,
                            _get_fallback_models(reg, model, context),
                            "user_override", 60000)
       ELSE IF usable # {}
            THEN LET rt == routes[CHOOSE k \in usable : \A j \in usable : k <= j]
                 IN RoutingDecision(rt.use_model,
                                    _resolve_fallback_chain(reg, rt.fallback_models, context),
                                    rt.name, rt.timeout_ms)
       ELSE _get_default_route(reg, context)

\* ModelRouter.route
route(reg, context, user_model_override) ==
    LET model == get_model(reg, user_model_override)
        routes == get_routes(reg)
        usable == {k \in 1..Len(routes) :
                     /\ _matches_route(routes[k], context)
                     /\ validate_model_exists(reg, routes[k].use_model)
                     /\ _validate_capabilities(get_model(reg, routes[k].use_model), context)}
    IN IF /\ user_model_override # NoneStr
          /\ validate_model_exists(reg, user_model_override)
          /\ _validate_capabilities(model, context)
       THEN RoutingDecision(user_model_override,
                            _get_fallback_models(reg, model, context),
                            "user_override", 60000)
       ELSE IF usable # {}
            THEN LET rt == routes[CHOOSE k \in usable : \A j \in usable : k <= j]
                 IN RoutingDecision(rt.use_model,
                                    _resolve_fallback_chain(reg, rt.fallback_models, context),
                                    rt.name, rt.timeout_ms)
       ELSE _get_default_route(reg, context)

(***************************************************************************)
(* The registry, the requests and the inputs of the executor               *)
(***************************************************************************)
\* The configuration the executor runs against: two providers with one model
\* each, a rule for tool calls and a catch-all rule.
MainRegistry ==
    [models |-> <<ModelSpec("a", "p1", TRUE, TRUE, 8, 3, 3, 2),
                  ModelSpec("c", "p2", FALSE, FALSE, 4, 2, 1, 3)>>,
     routes |-> <<RouteSpec("tools",
                            RouteCondition(FALSE, <<>>, <<Clause("tools_enabled", TRUE, NoneStr, 0)>>),
                            "a", <<"c">>, 60000),
                  RouteSpec("general", RouteCondition(TRUE, <<>>, <<>>), "c", <<"a">>, 30000)>>]

Requests == {"r1", "r2"}
\* The request followed in detail
MainRequests == {"r1"}

\* The chains [primary] + fallbacks handed to the executor directly
MainChains ==
    {<<"a">>, <<"a", "c">>, <<"a", "a">>, <<"zz", "c">>, <<"a", "zz", "c">>}

\* Contexts of the complete() calls
MainContexts ==
    {RoutingContext("hi", FALSE, FALSE, FALSE, 1, tools, NoneStr) : tools \in BOOLEAN}

\* FallbackAttempt (error_short, a display string, is left out)
FallbackAttempt(attempt_n, model_id, provider, status_code, error_type, latency_ms) ==
    [attempt_n |-> attempt_n, model_id |-> model_id, provider |-> provider,
     status_code |-> status_code, error_type |-> error_type, latency_ms |-> latency_ms]

\* What a call gave its caller: nothing yet, a response (with the candidate the
\* adapter was called for and the model field of the request it sent), the end
\* of a stream, or an error.
NoResult ==
    [kind |-> "none", model_id |-> NoneStr, sent_model |-> NoneStr,
     status_code |-> None, error_type |-> NoneStr]
Response(model_id, sent_model) ==
    [kind |-> "response", model_id |-> model_id, sent_model |-> sent_model,
     status_code |-> 200, error_type |-> NoneStr]
StreamEnd(model_id, sent_model) ==
    [kind |-> "stream_end", model_id |-> model_id, sent_model |-> sent_model,
     status_code |-> 200, error_type |-> NoneStr]
\* ProviderError(message, status_code, error_type) as the caller sees it: the
\* exception has these attributes and no other.
ProviderError(status_code, error_type) ==
    [kind |-> "error", model_id |-> NoneStr, sent_model |-> NoneStr,
     status_code |-> status_code, error_type |-> error_type]

\* RequestLogCreate as CompletionHandler._log_request fills it; id is the
\* primary key the store gives the row (None before the row is inserted)
NoLog ==
    [written |-> FALSE, id |-> None, provider |-> NoneStr, model_id |-> NoneStr,
     route_name |-> NoneStr, fallback_used |-> FALSE, fallback_chain |-> <<>>,
     error_type |-> NoneStr]
RequestLog(provider, model_id, route_name, fallback_used, fallback_chain, error_type) ==
    [written |-> TRUE, id |-> None, provider |-> provider, model_id |-> model_id,
     route_name |-> route_name, fallback_used |-> fallback_used,
     fallback_chain |-> fallback_chain, error_type |-> error_type]

\* RAGLogCreate: request_id is what links it to a request log
NoRagLog == [written |-> FALSE, request_id |-> None]
RAGLog(request_id) == [written |-> TRUE, request_id |-> request_id]

\* str(uuid.uuid4()): a value no earlier call in the same request gave; used
\* is the last value given (0 before the first call)
uuid4(used) == used + 1

\* A request before it is started
\* (rag: RAG is enabled with chunks attached; request_id: the correlation id;
\* log_store_ok, rag_store_ok: whether the store will take the request log and
\* the RAG log of this request)
IdleRequest ==
    [pc |-> "idle", kind |-> NoneStr, chain |-> <<>>, route_name |-> NoneStr,
     i |-> 1, model |-> NoneStr, attempts |-> <<>>, start_time |-> None,
     chunks |-> <<>>, result |-> NoResult, log |-> NoLog,
     rag |-> FALSE, request_id |-> None, log_store_ok |-> TRUE, rag_store_ok |-> TRUE,
     rag_log |-> NoRagLog]

VARIABLES
    now,        \* time.time(), in ticks
    breaker,    \* CircuitBreaker.breakers: provider -> CircuitBreakerState
    registry,   \* the loaded ModelRegistryConfig
    req,        \* the requests: position, locals and what each has produced
    route_in,   \* the inputs of a route() call checked on its own
    route_out,  \* the decision that call returned
    load,       \* a load_config call: the document and whether it has returned
    singletons, \* the module globals _registry, _router, _fallback_handler, _completion_handler
    rerank,     \* a LexicalReranker.rerank call: its inputs and its result
    inject,     \* an inject_chunks_into_prompt call: the caller's list and the result
    logs        \* the request_logs table and a GET /logs/{id} call

\* The variables of the calls checked on their own, which requests leave alone
aside == <<load, singletons, rerank, inject, logs>>

vars == <<now, breaker, registry, req, route_in, route_out, aside>>

\* No load_config call is under way
NoLoad == [pc |-> "idle", document |-> NoneStr, raised |-> FALSE]

\* The module globals before anything asked for them; no request served
NoSingletons ==
    [_registry |-> None, _router |-> None, _fallback_handler |-> None,
     _completion_handler |-> FALSE, created |-> 0,
     served |-> [r \in Requests |-> [pc |-> "idle", routed_on |-> None, executed_on |-> None]]]

\* No rerank call is under way
NoRerank ==
    [pc |-> "idle", query |-> <<>>, chunks |-> <<>>, top_k |-> None,
     vector_weight |-> 0, lexical_weight |-> 0, ranked_chunks |-> <<>>]

\* No inject_chunks_into_prompt call is under way
NoInject ==
    [pc |-> "idle", heap |-> <<>>, messages |-> <<>>, original |-> <<>>,
     ranked_chunks |-> <<>>, injection_strategy |-> NoneStr,
     returned |-> <<>>, returned_is_input |-> FALSE]

\* No metrics asked for
NoMetrics == [total_requests |-> None]

\* An empty request_logs table and no call answered
NoLogs ==
    [store |-> <<>>, log_id |-> None, user |-> NoneStr,
     response |-> [status_code |-> None, id |-> None], metrics |-> NoMetrics]

IdleAside == load = NoLoad /\ singletons = NoSingletons /\ rerank = NoRerank /\ inject = NoInject /\ logs = NoLogs

NoRouteIn == [context |-> RoutingContext(NoneStr, FALSE, FALSE, FALSE, 0, FALSE, NoneStr),
              override |-> NoneStr]
NoRouteOut == RoutingDecision(NoneStr, <<>>, NoneStr, 0)

Init ==
    /\ now = 0
    /\ breaker = [p \in Providers |-> NewBreaker]
    /\ registry = MainRegistry
    /\ req = [r \in Requests |-> IdleRequest]
    /\ route_in = NoRouteIn
    /\ route_out = NoRouteOut
    /\ IdleAside

(***************************************************************************)
(* Fallback executor (fallback_handler.py, FallbackHandler)                *)
(***************************************************************************)
Unary(rq) == rq.kind \in {"execute", "complete"}

\* The candidate is attempted with the model field left as it was
OverrideModel_kept(rq, model_id) == rq

\* request.model = model_id
OverrideModel(rq, model_id) == [rq EXCEPT !.model = model_id]

\* The except ProviderError clause of execute_with_fallback: the errors that
\* are recorded as a breaker failure
UnaryErrorCounts(e) ==
    \/ e.status_code # None /\ e.status_code # 0 /\ e.status_code >= 500
    \/ e.error_type = "timeout"

\* The except ProviderError clause of stream_with_fallback
StreamErrorCounts(e) ==
    e.status_code # None /\ e.status_code # 0 /\ e.status_code >= 500

\* A refused candidate skipped with no attempt recorded
SkipOpen_silent(rq, model_id, p) == [rq EXCEPT !.i = rq.i + 1]

\* The candidate is refused by the breaker: the unary executor appends a
\* circuit_breaker_open attempt, the streaming executor only goes on.
SkipOpen(rq, model_id, p) ==
    [rq EXCEPT !.i = rq.i + 1,
               !.attempts = IF Unary(rq)
                            THEN Append(rq.attempts,
                                        FallbackAttempt(rq.i, model_id, p, 503,
                                                        "circuit_breaker_open", 0))
                            ELSE rq.attempts]

\* A failed attempt that leaves no record
Failed_unrecorded(rq, p, status_code, error_type, t) ==
    [rq EXCEPT !.pc = "loop", !.i = rq.i + 1, !.start_time = None]

\* A failed attempt after which the same candidate is tried again
Failed_retry(rq, p, status_code, error_type, t) ==
    [rq EXCEPT !.pc = "loop", !.start_time = None,
               !.attempts = Append(rq.attempts,
                                   FallbackAttempt(rq.i, rq.chain[rq.i], p, status_code,
                                                   error_type, t - rq.start_time))]

\* The attempt of the candidate at rq.i failed at time t: the unary executor
\* appends the attempt; both go on with the next candidate.
Failed(rq, p, status_code, error_type, t) ==
    [rq EXCEPT !.pc = "loop", !.i = rq.i + 1, !.start_time = None,
               !.attempts = IF Unary(rq)
                            THEN Append(rq.attempts,
                                        FallbackAttempt(rq.i, rq.chain[rq.i], p, status_code,
                                                        error_type, t - rq.start_time))
                            ELSE rq.attempts]

\* An exception other than ProviderError as the caller of complete() sees it
Raised(exc) == [NoResult EXCEPT !.kind = "error", !.error_type = exc]

\* RequestLogs.insert_log: the row is stored under a primary key of its own
\* (default=uuid4), or the store raises
insert_log(ok, log, id) ==
    IF ok THEN [raised |-> FALSE, log |-> [log EXCEPT !.id = id]]
    ELSE [raised |-> TRUE, log |-> NoLog]

\* _log_request with no try around the insert
_log_request_unguarded(ok, log, id) == insert_log(ok, log, id)

\* CompletionHandler._log_request: the insert inside try / except Exception
_log_request(ok, log, id) ==
    [raised |-> FALSE, log |-> insert_log(ok, log, id).log]

\* CompletionHandler._log_rag and RAGLogs.insert_log: the row keeps the
\* request_id it is given; the insert is inside try / except Exception
_log_rag(ok, request_id) ==
    [raised |-> FALSE, log |-> IF ok THEN RAGLog(request_id) ELSE NoRagLog]

\* A success log that always names the primary model
SuccessLog_primary(reg, rq, fallback_attempts) ==
    RequestLog(get_model(reg, rq.chain[1]).provider, rq.chain[1], rq.route_name,
               Len(fallback_attempts) > 0, fallback_attempts, NoneStr)

\* CompletionHandler.complete, the success path: the request log
SuccessLog(reg, rq, fallback_attempts) ==
    LET final_model_id == IF fallback_attempts # <<>>
                          THEN fallback_attempts[Len(fallback_attempts)].model_id
                          ELSE rq.chain[1]
        provider == IF validate_model_exists(reg, final_model_id)
                    THEN get_model(reg, final_model_id).provider
                    ELSE "unknown"
    IN RequestLog(provider, final_model_id, rq.route_name,
                  Len(fallback_attempts) > 0, fallback_attempts, NoneStr)

\* CompletionHandler.complete, the except ProviderError path: the request log
FailureLog(rq, e) ==
    RequestLog("unknown", rq.chain[1], rq.route_name, TRUE, <<>>, e.error_type)

\* execute_with_fallback called by a caller of its own (as the tests do)
StartExecute(r, primary_model_id, fallback_model_ids) ==
    /\ req[r].pc \in {"idle", "done"}
    /\ req' = [req EXCEPT ![r] =
                 [IdleRequest EXCEPT !.pc = "loop", !.kind = "execute",
                                     !.chain = <<primary_model_id>> \o fallback_model_ids,
                                     !.model = primary_model_id]]
    /\ UNCHANGED <<now, breaker, registry, route_in, route_out, aside>>

\* stream_with_fallback called
StartStream(r, primary_model_id, fallback_model_ids) ==
    /\ req[r].pc \in {"idle", "done"}
    /\ req' = [req EXCEPT ![r] =
                 [IdleRequest EXCEPT !.pc = "loop", !.kind = "stream",
                                     !.chain = <<primary_model_id>> \o fallback_model_ids,
                                     !.model = primary_model_id]]
    /\ UNCHANGED <<now, breaker, registry, route_in, route_out, aside>>

\* CompletionHandler.complete up to the call of execute_with_fallback: route
\* the request and build the provider request
StartComplete(r, context, user_model_override) ==
    LET d == route(registry, context, user_model_override)
    IN /\ req[r].pc \in {"idle", "done"}
       /\ req' = [req EXCEPT ![r] =
                    IF d = RouteRaises
                    THEN [IdleRequest EXCEPT !.pc = "done", !.kind = "complete",
                                             !.request_id = uuid4(0),
                                             !.result = [NoResult EXCEPT !.kind = "error",
                                                                         !.error_type = "IndexError"]]
                    ELSE [IdleRequest EXCEPT !.pc = "loop", !.kind = "complete",
                                             !.request_id = uuid4(0),
                                             !.chain = <<d.primary_model_id>> \o d.fallback_model_ids,
                                             !.route_name = d.route_name,
                                             !.model = d.primary_model_id]]
       /\ UNCHANGED <<now, breaker, registry, route_in, route_out, aside>>

\* One iteration of the for loop up to the await: resolve the model, ask the
\* breaker, set the model field, get the adapter and start the call.  Every
\* provider of the registry is configured and has its API key, so _get_adapter
\* returns an adapter.
NextCandidate(r) ==
    LET rq == req[r]
        model_id == rq.chain[rq.i]
        p == get_model(registry, model_id).provider
        ca == can_attempt(breaker[p], now)
    IN /\ rq.pc = "loop"
       /\ rq.i <= Len(rq.chain)
       /\ IF ~validate_model_exists(registry, model_id)
          THEN /\ req' = [req EXCEPT ![r].i = rq.i + 1]
               /\ UNCHANGED breaker
          ELSE IF ~ca.ret
          THEN /\ breaker' = [breaker EXCEPT ![p] = ca.b]
               /\ req' = [req EXCEPT ![r] = SkipOpen(rq, model_id, p)]
          ELSE /\ breaker' = [breaker EXCEPT ![p] = ca.b]
               /\ req' = [req EXCEPT ![r] =
                            [OverrideModel(rq, model_id) EXCEPT !.pc = "await",
                                                                !.start_time = now]]
       /\ UNCHANGED <<now, registry, route_in, route_out, aside>>

\* adapter.complete(request) ends before the deadline: the response is
\* returned (and, in complete(), logged), or the ProviderError is handled.
AttemptReturns(r, up) ==
    LET rq == req[r]
        model_id == rq.chain[rq.i]
        p == get_model(registry, model_id).provider
        out == adapter_complete(up)
        fallback_attempts ==
            IF rq.i > 1
            THEN Append(rq.attempts,
                        FallbackAttempt(rq.i, model_id, p, 200, NoneStr, now - rq.start_time))
            ELSE rq.attempts
        logged == IF rq.kind = "complete"
                  THEN _log_request(rq.log_store_ok,
                                    SuccessLog(registry, rq, fallback_attempts),
                                    uuid4(rq.request_id))
                  ELSE [raised |-> FALSE, log |-> NoLog]
        rag_logged == IF rq.kind = "complete" /\ rq.rag /\ ~logged.raised
                      THEN _log_rag(rq.rag_store_ok, rq.request_id)
                      ELSE [raised |-> FALSE, log |-> NoRagLog]
    IN /\ rq.pc = "await"
       /\ Unary(rq)
       /\ IF out.exc = "return"
          THEN /\ breaker' = [breaker EXCEPT ![p] = record_success(@)]
               /\ req' = [req EXCEPT ![r] =
                            [rq EXCEPT !.pc = "done", !.start_time = None,
                                       !.attempts = fallback_attempts,
                                       !.result = IF logged.raised \/ rag_logged.raised
                                                  THEN Raised("Exception")
                                                  ELSE Response(model_id, rq.model),
                                       !.log = logged.log,
                                       !.rag_log = rag_logged.log]]
          ELSE /\ breaker' = IF UnaryErrorCounts(out)
                             THEN [breaker EXCEPT ![p] = record_failure(@, now)]
                             ELSE breaker
               /\ breaker'[p].failure_count <= MaxFailureCount
               /\ req' = [req EXCEPT ![r] = Failed(rq, p, out.status_code, out.error_type, now)]
       /\ UNCHANGED <<now, registry, route_in, route_out, aside>>

\* asyncio.wait_for gives up on the call: the except asyncio.TimeoutError clause
AttemptTimesOut(r) ==
    LET rq == req[r]
        p == get_model(registry, rq.chain[rq.i]).provider
    IN /\ rq.pc = "await"
       /\ Unary(rq)
       /\ breaker' = [breaker EXCEPT ![p] = record_failure(@, now)]
       /\ breaker'[p].failure_count <= MaxFailureCount
       /\ req' = [req EXCEPT ![r] = Failed(rq, p, 408, "timeout", now)]
       /\ UNCHANGED <<now, registry, route_in, route_out, aside>>

\* The loop is over and nothing was returned: all_fallbacks_failed is raised
\* (and, in complete(), the failure is logged and the error raised again).
AllFailed(r) ==
    LET rq == req[r]
        e == ProviderError(500, "all_fallbacks_failed")
        logged == IF rq.kind = "complete"
                  THEN _log_request(rq.log_store_ok, FailureLog(rq, e), uuid4(rq.request_id))
                  ELSE [raised |-> FALSE, log |-> NoLog]
    IN /\ rq.pc = "loop"
       /\ rq.i > Len(rq.chain)
       /\ req' = [req EXCEPT ![r] =
                    [rq EXCEPT !.pc = "done",
                               !.result = IF logged.raised THEN Raised("Exception") ELSE e,
                               !.log = logged.log]]
       /\ UNCHANGED <<now, breaker, registry, route_in, route_out, aside>>

\* The upstream answers the streaming call: the stream is open, or the error
\* is handled by stream_with_fallback.
StreamOpens(r, up) ==
    LET rq == req[r]
        p == get_model(registry, rq.chain[rq.i]).provider
        out == stream_open(up)
    IN /\ rq.pc = "await"
       /\ rq.kind = "stream"
       /\ IF out.exc = "return"
          THEN /\ req' = [req EXCEPT ![r].pc = "streaming"]
               /\ UNCHANGED breaker
          ELSE /\ breaker' = IF StreamErrorCounts(out)
                             THEN [breaker EXCEPT ![p] = record_failure(@, now)]
                             ELSE breaker
               /\ breaker'[p].failure_count <= MaxFailureCount
               /\ req' = [req EXCEPT ![r] = Failed(rq, p, out.status_code, out.error_type, now)]
       /\ UNCHANGED <<now, registry, route_in, route_out, aside>>

\* The adapter yields a chunk and stream_with_fallback yields it to the caller
StreamChunk(r) ==
    LET rq == req[r]
    IN /\ rq.pc = "streaming"
       /\ Len(rq.chunks) < MaxChunks
       /\ req' = [req EXCEPT ![r].chunks = Append(rq.chunks, rq.i)]
       /\ UNCHANGED <<now, breaker, registry, route_in, route_out, aside>>

\* The stream ends with [DONE]: record the success and return
StreamEnds(r) ==
    LET rq == req[r]
        model_id == rq.chain[rq.i]
        p == get_model(registry, model_id).provider
    IN /\ rq.pc = "streaming"
       /\ breaker' = [breaker EXCEPT ![p] = record_success(@)]
       /\ req' = [req EXCEPT ![r] =
                    [rq EXCEPT !.pc = "done", !.start_time = None,
                               !.result = StreamEnd(model_id, rq.model)]]
       /\ UNCHANGED <<now, registry, route_in, route_out, aside>>

\* The open stream fails: both except clauses of stream_with_fallback go on
\* with the next candidate.
StreamBreaks(r, f) ==
    LET rq == req[r]
        p == get_model(registry, rq.chain[rq.i]).provider
        out == stream_break(f)
    IN /\ rq.pc = "streaming"
       /\ breaker' = IF out.exc = "Exception" \/ StreamErrorCounts(out)
                     THEN [breaker EXCEPT ![p] = record_failure(@, now)]
                     ELSE breaker
       /\ breaker'[p].failure_count <= MaxFailureCount
       /\ req' = [req EXCEPT ![r] = Failed(rq, p, out.status_code, out.error_type, now)]
       /\ UNCHANGED <<now, registry, route_in, route_out, aside>>

\* POST /circuit-breakers/{provider}/reset
reset_circuit_breaker(p) ==
    /\ breaker' = [breaker EXCEPT ![p] = record_success(@)]
    /\ UNCHANGED <<now, registry, req, route_in, route_out, aside>>

\* The clock advances
Tick ==
    /\ now < MaxTime
    /\ now' = now + 1
    /\ UNCHANGED <<breaker, registry, req, route_in, route_out, aside>>

Next ==
    \/ \E r \in MainRequests, ch \in MainChains : StartExecute(r, Head(ch), Tail(ch))
    \/ \E r \in MainRequests, ch \in MainChains : StartStream(r, Head(ch), Tail(ch))
    \/ \E r \in MainRequests, c \in MainContexts, o \in {NoneStr, "c"} : StartComplete(r, c, o)
    \/ \E r \in MainRequests : NextCandidate(r)
    \/ \E r \in MainRequests, up \in Upstream : AttemptReturns(r, up)
    \/ \E r \in MainRequests : AttemptTimesOut(r)
    \/ \E r \in MainRequests : AllFailed(r)
    \/ \E r \in MainRequests, up \in Upstream : StreamOpens(r, up)
    \/ \E r \in MainRequests : StreamChunk(r)
    \/ \E r \in MainRequests : StreamEnds(r)
    \/ \E r \in MainRequests, f \in StreamFailure : StreamBreaks(r, f)
    \/ \E p \in Providers : reset_circuit_breaker(p)
    \/ Tick

Spec == Init /\ [][Next]_vars

(***************************************************************************)
(* complete() with RAG, a log store that can fail, and cancellation        *)
(***************************************************************************)
\* An except Exception clause that also catches BaseException
except_Exception_catches_all(exc) == TRUE

\* Whether an except Exception clause catches exc: asyncio.CancelledError
\* derives from BaseException and passes through
except_Exception_catches(exc) == exc # "CancelledError"

\* CompletionHandler.complete up to the call of execute_with_fallback, for a
\* request with or without RAG chunks, against a log store that will or will
\* not take the rows
StartCompleteRag(r, context, user_model_override, rag, log_ok, rag_ok) ==
    LET ctx == [context EXCEPT !.rag_enabled = rag]
        d == route(registry, ctx, user_model_override)
    IN /\ req[r].pc \in {"idle", "done"}
       /\ d # RouteRaises
       /\ req' = [req EXCEPT ![r] =
                    [IdleRequest EXCEPT !.pc = "loop", !.kind = "complete",
                                        !.request_id = uuid4(0),
                                        !.rag = rag,
                                        !.log_store_ok = log_ok,
                                        !.rag_store_ok = rag_ok,
                                        !.chain = <<d.primary_model_id>> \o d.fallback_model_ids,
                                        !.route_name = d.route_name,
                                        !.model = d.primary_model_id]]
       /\ UNCHANGED <<now, breaker, registry, route_in, route_out, aside>>

\* The caller cancels the task while it awaits adapter.complete:
\* CancelledError is raised at the await.  No except clause of the adapter,
\* of execute_with_fallback or of complete() names it; were it caught by
\* except Exception, the attempt would count as a failure and the loop go on.
Cancel(r) ==
    LET rq == req[r]
        p == get_model(registry, rq.chain[rq.i]).provider
    IN /\ rq.pc = "await"
       /\ Unary(rq)
       /\ IF except_Exception_catches("CancelledError")
          THEN /\ breaker' = [breaker EXCEPT ![p] = record_failure(@, now)]
               /\ breaker'[p].failure_count <= MaxFailureCount
               /\ req' = [req EXCEPT ![r] = Failed(rq, p, 500, "unknown", now)]
          ELSE /\ UNCHANGED breaker
               /\ req' = [req EXCEPT ![r] =
                            [rq EXCEPT !.pc = "done", !.start_time = None,
                                       !.result = Raised("CancelledError")]]
       /\ UNCHANGED <<now, registry, route_in, route_out, aside>>

\* The registry of the complete() calls: the catch-all rule has two fallbacks
CompleteRegistry ==
    [models |-> <<ModelSpec("a", "p1", TRUE, TRUE, 8, 3, 3, 2),
                  ModelSpec("c", "p2", FALSE, FALSE, 4, 2, 1, 3)>>,
     routes |-> <<RouteSpec("general", RouteCondition(TRUE, <<>>, <<>>), "a", <<"c">>, 30000)>>]

InitComplete ==
    /\ now = 0
    /\ breaker = [p \in Providers |-> NewBreaker]
    /\ registry = CompleteRegistry
    /\ req = [r \in Requests |-> IdleRequest]
    /\ route_in = NoRouteIn
    /\ route_out = NoRouteOut
    /\ IdleAside

NextComplete ==
    \/ \E r \in MainRequests, c \in MainContexts,
          rag \in BOOLEAN, log_ok \in BOOLEAN, rag_ok \in BOOLEAN :
          StartCompleteRag(r, c, NoneStr, rag, log_ok, rag_ok)
    \/ \E r \in MainRequests : NextCandidate(r)
    \/ \E r \in MainRequests, up \in Upstream : AttemptReturns(r, up)
    \/ \E r \in MainRequests : AttemptTimesOut(r)
    \/ \E r \in MainRequests : AllFailed(r)
    \/ \E r \in MainRequests : Cancel(r)

SpecComplete == InitComplete /\ [][NextComplete]_vars

(***************************************************************************)
(* Concurrent requests on one provider                                     *)
(***************************************************************************)
\* Two callers of execute_with_fallback share the breaker of provider p1, next
\* to the admin reset and the clock.
NextConcurrent ==
    \/ \E r \in Requests : StartExecute(r, "a", <<>>)
    \/ \E r \in Requests : NextCandidate(r)
    \/ \E r \in Requests, up \in Upstream : AttemptReturns(r, up)
    \/ \E r \in Requests : AttemptTimesOut(r)
    \/ \E r \in Requests : AllFailed(r)
    \/ reset_circuit_breaker("p1")
    \/ Tick

SpecConcurrent == Init /\ [][NextConcurrent]_vars

(***************************************************************************)
(* route() on its own: registries, contexts and overrides                  *)
(***************************************************************************)
\* largest number of models in a registry
MaxModels == 3

\* The model entries registries are made of.  Two entries share the id "a":
\* load_config does not reject a document that repeats a model id.
ModelPool ==
    {ModelSpec("a", "p1", TRUE, TRUE, 8, 3, 3, 2),
     ModelSpec("a", "p1", FALSE, FALSE, 2, 1, 1, 1),
     ModelSpec("b", "p1", TRUE, FALSE, 4, 3, 1, 3),
     ModelSpec("c", "p2", FALSE, FALSE, 4, 2, 1, 3),
     ModelSpec("d", "p2", TRUE, TRUE, 2, 2, 2, 2)}

\* Sequences of distinct elements of S of length at most n
RECURSIVE ListsUpTo(_, _)
ListsUpTo(S, n) ==
    IF n = 0 THEN {<<>>}
    ELSE LET shorter == ListsUpTo(S, n - 1)
             longest == {t \in shorter : Len(t) = n - 1}
             fresh(t) == {x \in S : \A k \in 1..Len(t) : t[k] # x}
         IN shorter \cup UNION {{Append(t, x) : x \in fresh(t)} : t \in longest}

R_coding ==
    RouteSpec("coding",
              RouteCondition(FALSE, <<Clause("has_code_block", TRUE, NoneStr, 0)>>, <<>>),
              "c", <<"b", "a">>, 30000)
R_tools ==
    RouteSpec("tools",
              RouteCondition(FALSE, <<>>, <<Clause("tools_enabled", TRUE, NoneStr, 0),
                                            Clause("rag_enabled", FALSE, NoneStr, 0)>>),
              "a", <<"d", "zz">>, 60000)
R_long ==
    RouteSpec("long",
              RouteCondition(FALSE, <<Clause("context_est_tokens_gt", FALSE, NoneStr, 3),
                                      Clause("contains_regex", FALSE, "def", 0),
                                      Clause("max_cost", FALSE, NoneStr, 1)>>, <<>>),
              "a", <<>>, 45000)
R_json ==
    RouteSpec("json",
              RouteCondition(FALSE, <<>>, <<Clause("response_format_required", FALSE, "json_schema", 0),
                                            Clause("has_attachments", FALSE, NoneStr, 0)>>),
              "d", <<"c", "a">>, 30000)
R_general ==
    RouteSpec("general", RouteCondition(TRUE, <<>>, <<>>), "b", <<"c", "d">>, 30000)

\* The route lists of the registries
RouteLists ==
    {<<>>, <<R_coding>>, <<R_tools, R_general>>, <<R_long, R_tools>>,
     <<R_json, R_coding, R_long>>, <<R_general, R_coding>>,
     <<R_coding, R_json, R_tools, R_general>>}

RouteRegistries ==
    [models : ListsUpTo(ModelPool, MaxModels), routes : RouteLists]

\* The contexts analyze_message_content can give
RouteContexts ==
    {RoutingContext(m[1], m[2], FALSE, FALSE, tokens, tools, fmt) :
        m \in {<<"hi", FALSE>>, <<"def f", TRUE>>},
        tokens \in {1, 5}, tools \in BOOLEAN, fmt \in {NoneStr, "json_schema"}}

InitRoute ==
    /\ now = 0
    /\ breaker = [p \in Providers |-> NewBreaker]
    /\ req = [r \in Requests |-> IdleRequest]
    /\ registry \in RouteRegistries
    /\ route_in \in [context : RouteContexts, override : {NoneStr, "a", "c", "zz"}]
    /\ route_out = NoRouteOut
    /\ IdleAside

\* router.route(context, user_model_override) is called
RouteCall ==
    /\ route_out = NoRouteOut
    /\ route_out' = route(registry, route_in.context, route_in.override)
    /\ UNCHANGED <<now, breaker, registry, req, route_in, aside>>

NextRoute == RouteCall

SpecRoute == InitRoute /\ [][NextRoute]_vars

(***************************************************************************)
(* load_config on its own: configuration documents                         *)
(***************************************************************************)
\* The model entries of the documents.  Two entries share the id "a"; b and c
\* carry a tier outside 1..3.
DocumentModels ==
    {ModelSpec("a", "p1", TRUE, TRUE, 8, 3, 3, 2),
     ModelSpec("a", "p1", FALSE, FALSE, 2, 1, 1, 1),
     ModelSpec("b", "p1", TRUE, FALSE, 4, 4, 1, 3),
     ModelSpec("c", "p2", FALSE, FALSE, 4, 2, 0, 3),
     ModelSpec("d", "p2", TRUE, TRUE, 2, 2, 2, 2)}

\* The route lists of the documents; "zz" names no model
DocumentRoutes ==
    {<<>>,
     <<RouteSpec("general", RouteCondition(TRUE, <<>>, <<>>), "a", <<"d">>, 30000)>>,
     <<RouteSpec("general", RouteCondition(TRUE, <<>>, <<>>), "d", <<"zz">>, 30000)>>,
     <<RouteSpec("coding", RouteCondition(FALSE, <<Clause("has_code_block", TRUE, NoneStr, 0)>>, <<>>),
                 "zz", <<>>, 30000),
       RouteSpec("general", RouteCondition(TRUE, <<>>, <<>>), "d", <<>>, 30000)>>}

\* What load_config can find at config_path: no file, a file yaml or pydantic
\* cannot make a ModelRegistryConfig of (kind "malformed"), or a file with the
\* three sections.
Documents ==
    [kind : {"missing", "malformed", "config"}, providers : {{"p1", "p2"}},
     models : ListsUpTo(DocumentModels, MaxModels), routes : DocumentRoutes]

\* ModelRegistryConfig
ModelRegistryConfig(providers, models, routes) ==
    [providers |-> providers, models |-> models, routes |-> routes]

\* ModelSpec's Field(ge=1, le=3) on the three tier fields
TierFieldsValid(m) ==
    /\ m.reliability_tier \in 1..3
    /\ m.cost_tier \in 1..3
    /\ m.speed_tier \in 1..3

\* ModelRegistryConfig(**config_data) raises: the data is not the three
\* sections, or a field constraint fails
ConfigRaises(doc) ==
    \/ doc.kind = "malformed"
    \/ \E k \in 1..Len(doc.models) : ~TierFieldsValid(doc.models[k])

\* ModelRegistry._load_defaults
_load_defaults ==
    ModelRegistryConfig({"openai"},
                        <<ModelSpec("gpt-4", "openai", TRUE, TRUE, 128000, 3, 3, 2)>>,
                        <<RouteSpec("default", RouteCondition(TRUE, <<>>, <<>>), "gpt-4", <<>>, 30000)>>)

\* ModelRegistry.load_config
load_config(doc) ==
    [raised |-> FALSE,
     config |-> IF doc.kind = "missing" THEN _load_defaults
                ELSE IF ConfigRaises(doc) THEN _load_defaults
                ELSE ModelRegistryConfig(doc.providers, doc.models, doc.routes)]

InitLoad ==
    /\ now = 0
    /\ breaker = [p \in Providers |-> NewBreaker]
    /\ req = [r \in Requests |-> IdleRequest]
    \* ModelRegistry.__init__ before load_config: config is None, the lookup
    \* tables are empty
    /\ registry = ModelRegistryConfig({}, <<>>, <<>>)
    /\ route_in = NoRouteIn
    /\ route_out = NoRouteOut
    /\ load \in [pc : {"idle"}, document : Documents, raised : {FALSE}]
    /\ singletons = NoSingletons /\ rerank = NoRerank /\ inject = NoInject /\ logs = NoLogs

\* ModelRegistry(config_path): load_config runs on the document
LoadConfig ==
    /\ load.pc = "idle"
    /\ LET loaded == load_config(load.document)
       IN /\ registry' = IF loaded.raised THEN registry ELSE loaded.config
          /\ load' = [load EXCEPT !.pc = "done", !.raised = loaded.raised]
    /\ UNCHANGED <<now, breaker, req, route_in, route_out, singletons, rerank, inject, logs>>

NextLoad == LoadConfig

SpecLoad == InitLoad /\ [][NextLoad]_vars

(***************************************************************************)
(* The process-wide singletons and registry reloads                        *)
(***************************************************************************)
\* largest number of registry snapshots created: the first and the reloads
MaxSnapshots == 3

\* get_model_registry: creates the registry when _registry is None
get_model_registry(s) ==
    IF s._registry = None
    THEN [s EXCEPT !._registry = s.created + 1, !.created = s.created + 1]
    ELSE s

\* get_router: ModelRouter() keeps get_model_registry() as self.registry.  The
\* value of _router is the snapshot that object holds.
get_router(s) ==
    IF s._router = None
    THEN LET s1 == get_model_registry(s) IN [s1 EXCEPT !._router = s1._registry]
    ELSE s

\* get_fallback_handler: FallbackHandler() keeps get_model_registry() as
\* self.registry
get_fallback_handler(s) ==
    IF s._fallback_handler = None
    THEN LET s1 == get_model_registry(s) IN [s1 EXCEPT !._fallback_handler = s1._registry]
    ELSE s

\* get_completion_handler: CompletionHandler() takes the router and the
\* fallback handler singletons
get_completion_handler(s) ==
    IF s._completion_handler
    THEN s
    ELSE [get_fallback_handler(get_router(s)) EXCEPT !._completion_handler = TRUE]

\* Some module asks for the router
GetRouter ==
    /\ singletons._router = None
    /\ singletons' = get_router(singletons)
    /\ UNCHANGED <<now, breaker, registry, req, route_in, route_out, load, rerank, inject, logs>>

\* Some module asks for the fallback handler
GetFallbackHandler ==
    /\ singletons._fallback_handler = None
    /\ singletons' = get_fallback_handler(singletons)
    /\ UNCHANGED <<now, breaker, registry, req, route_in, route_out, load, rerank, inject, logs>>

\* The first request asks for the completion handler
GetCompletionHandler ==
    /\ ~singletons._completion_handler
    /\ singletons' = get_completion_handler(singletons)
    /\ UNCHANGED <<now, breaker, registry, req, route_in, route_out, load, rerank, inject, logs>>

\* reload_model_registry: _registry becomes a new ModelRegistry
ReloadModelRegistry ==
    /\ singletons.created < MaxSnapshots
    /\ singletons' = [singletons EXCEPT !._registry = singletons.created + 1,
                                        !.created = singletons.created + 1]
    /\ UNCHANGED <<now, breaker, registry, req, route_in, route_out, load, rerank, inject, logs>>

\* complete(), step 3: self.router.route resolves ids against the router's
\* registry
ServeRoute(r) ==
    /\ singletons._completion_handler
    /\ singletons.served[r].pc = "idle"
    /\ singletons' = [singletons EXCEPT !.served[r].pc = "routed",
                                        !.served[r].routed_on = singletons._router]
    /\ UNCHANGED <<now, breaker, registry, req, route_in, route_out, load, rerank, inject, logs>>

\* complete(), step 5: execute_with_fallback resolves ids against the
\* fallback handler's registry
ServeExecute(r) ==
    /\ singletons.served[r].pc = "routed"
    /\ singletons' = [singletons EXCEPT !.served[r].pc = "done",
                                        !.served[r].executed_on = singletons._fallback_handler]
    /\ UNCHANGED <<now, breaker, registry, req, route_in, route_out, load, rerank, inject, logs>>

InitSingletons ==
    /\ now = 0
    /\ breaker = [p \in Providers |-> NewBreaker]
    /\ registry = MainRegistry
    /\ req = [r \in Requests |-> IdleRequest]
    /\ route_in = NoRouteIn
    /\ route_out = NoRouteOut
    /\ IdleAside

NextSingletons ==
    \/ GetRouter
    \/ GetFallbackHandler
    \/ GetCompletionHandler
    \/ ReloadModelRegistry
    \/ \E r \in Requests : ServeRoute(r)
    \/ \E r \in Requests : ServeExecute(r)

SpecSingletons == InitSingletons /\ [][NextSingletons]_vars

(***************************************************************************)
(* Reranker (rag_reranker.py, LexicalReranker)                             *)
(***************************************************************************)
\* Scores are fixed-point numbers in thousandths, weights and k1, b in the
\* fractions below.
\* largest number of candidates handed to rerank
MaxCandidates == 3

\* A text is the list of its pieces between spaces, with its length in
\* characters.
Text(pieces, chars) == [pieces |-> pieces, chars |-> chars]

\* RAGChunk: vector_score in thousandths
RAGChunk(doc_id, content, vector_score) ==
    [doc_id |-> doc_id, content |-> content, vector_score |-> vector_score]

\* str.lower() on the pieces of the texts
lower(w) ==
    IF w = "Exact" THEN "exact"
    ELSE IF w = "Query" THEN "query"
    ELSE w

\* LexicalReranker._tokenize: the lowercased runs of word characters; a piece
\* of punctuation gives no token
_tokenize(text) ==
    LET words == SelectSeq(text.pieces, LAMBDA w : w # ",")
    IN [k \in 1..Len(words) |-> lower(words[k])]

\* Counter(tokens)[term]
Count(tokens, term) == Cardinality({k \in 1..Len(tokens) : tokens[k] = term})

\* math.log(n) in thousandths, for the odd n the IDF formula meets
Ln(n) ==
    IF n = 1 THEN 0
    ELSE IF n = 3 THEN 1099
    ELSE IF n = 5 THEN 1609
    ELSE IF n = 7 THEN 1946
    ELSE IF n = 9 THEN 2197
    ELSE 2398

\* LexicalReranker._calculate_idf for one term:
\* log((N - df + 0.5) / (df + 0.5)) = log(2N - 2df + 1) - log(2df + 1)
_calculate_idf(term, chunks) ==
    LET N == Len(chunks)
        doc_count == Cardinality({k \in 1..N :
                                    Count(_tokenize(chunks[k].content), term) > 0})
    IN IF doc_count > 0
       THEN Ln(2 * N - 2 * doc_count + 1) - Ln(2 * doc_count + 1)
       ELSE 0

\* sum of f over the set S of terms
RECURSIVE SumOver(_, _)
SumOver(S, f) ==
    IF S = {} THEN 0
    ELSE LET x == CHOOSE y \in S : TRUE IN f[x] + SumOver(S \ {x}, f)

\* The smaller of two numbers
Min(a, b) == IF a < b THEN a ELSE b

\* LexicalReranker._bm25_score with k1 = 3/2 and b = 3/4, where
\* avg_doc_length = total_length / N:
\*   tf + k1 * norm = (8 tf total + 3 total + 9 doc_length N) / (8 total)
\*   term_score = idf * tf * (5/2) / that
_bm25_score(terms, document, doc_length, total_length, N, idf) ==
    LET doc_tokens == _tokenize(document)
        present == {t \in terms : Count(doc_tokens, t) > 0}
        term_score == [t \in present |->
            LET tf == Count(doc_tokens, t)
            IN IF total_length > 0
               THEN (idf[t] * 20 * tf * total_length)
                      \div (8 * tf * total_length + 3 * total_length + 9 * doc_length * N)
               ELSE (idf[t] * 5 * tf) \div (2 * tf + 3)]
        score == SumOver(present, term_score)
        max_score == (SumOver(terms, idf) * 5) \div 2
    IN IF max_score > 0 THEN Min((score * 1000) \div max_score, 1000) ELSE score

\* preview = content[:400], plus "..." when the content is longer: its length
\* and whether it ends in the ellipsis
Preview(content) ==
    [length |-> Min(content.chars, 400) + (IF content.chars > 400 THEN 3 ELSE 0),
     ellipsis |-> content.chars > 400]

\* RankedChunk: final_score in ten-thousandths (weights are in tenths)
RankedChunk(chunk, rerank_score, final_score) ==
    [chunk |-> chunk, vector_score |-> chunk.vector_score, rerank_score |-> rerank_score,
     final_score |-> final_score, preview |-> Preview(chunk.content)]

\* LexicalReranker.rerank
rerank_call(query, chunks, top_k, vector_weight, lexical_weight) ==
    LET terms == {lower(query.pieces[k]) : k \in {j \in 1..Len(query.pieces) : query.pieces[j] # ","}}
        N == Len(chunks)
        doc_lengths == [k \in 1..N |-> Len(_tokenize(chunks[k].content))]
        total_length == SumOver(1..N, doc_lengths)
        idf_scores == [t \in terms |-> _calculate_idf(t, chunks)]
        ranked == [k \in 1..N |->
            LET lexical_score == _bm25_score(terms, chunks[k].content, doc_lengths[k],
                                             total_length, N, idf_scores)
                final_score == vector_weight * chunks[k].vector_score
                                 + lexical_weight * lexical_score
            IN [key |-> <<-final_score, 0, 0>>,
                val |-> RankedChunk(chunks[k], lexical_score, final_score)]]
        sorted == SortPairs(ranked)
        out == [k \in 1..N |-> sorted[k].val]
    IN IF chunks = <<>> THEN <<>>
       ELSE IF top_k # None /\ top_k # 0 THEN Take(out, top_k) ELSE out

\* The candidates of the rerank calls
D1 == RAGChunk("d1", Text(<<"exact", "query", "match", "here">>, 22), 500)
D2 == RAGChunk("d2", Text(<<"completely", "different", "text">>, 25), 900)

RerankChunks ==
    {D1, D2,
     RAGChunk("d3", Text(<<"Exact", "match", ",", "exact">>, 20), 700),
     RAGChunk("d4", Text(<<"Query", "text">>, 401), 200),
     RAGChunk("d5", Text(<<"here">>, 400), 900)}

\* The queries of the rerank calls
RerankQueries ==
    {Text(<<"exact", "query", "match">>, 17), Text(<<"Query">>, 5),
     Text(<<"text", ",", "text">>, 10), Text(<<>>, 0)}

\* (vector_weight, lexical_weight) in tenths: the default and the two of the
\* weight test
RerankWeights == {<<3, 7>>, <<1, 9>>, <<9, 1>>}

InitRerank ==
    /\ now = 0
    /\ breaker = [p \in Providers |-> NewBreaker]
    /\ registry = MainRegistry
    /\ req = [r \in Requests |-> IdleRequest]
    /\ route_in = NoRouteIn
    /\ route_out = NoRouteOut
    /\ load = NoLoad /\ singletons = NoSingletons /\ inject = NoInject /\ logs = NoLogs
    /\ \E w \in RerankWeights :
          rerank \in [pc : {"idle"}, query : RerankQueries,
                      chunks : ListsUpTo(RerankChunks, MaxCandidates), top_k : {None, 0, 1, 2},
                      vector_weight : {w[1]}, lexical_weight : {w[2]},
                      ranked_chunks : {<<>>}]

\* reranker.rerank(query, chunks, top_k) is called
Rerank ==
    /\ rerank.pc = "idle"
    /\ rerank' = [rerank EXCEPT
                    !.pc = "done",
                    !.ranked_chunks = rerank_call(rerank.query, rerank.chunks, rerank.top_k,
                                                  rerank.vector_weight, rerank.lexical_weight)]
    /\ UNCHANGED <<now, breaker, registry, req, route_in, route_out, load, singletons, inject, logs>>

NextRerank == Rerank

SpecRerank == InitRerank /\ [][NextRerank]_vars

(***************************************************************************)
(* Prompt injection (rag_reranker.py, RAGTransparency)                     *)
(***************************************************************************)
\* longest message list handed to inject_chunks_into_prompt
MaxMessages == 2

\* A message dict; content is NoneStr when the dict has no "content" key
Message(role, content) == [role |-> role, content |-> content]

\* The message dicts of the callers
InjectMessages ==
    {Message("system", "be brief"), Message("user", "hi"),
     Message("user", NoneStr), Message("assistant", "hello")}

\* All lists over S of length at most n
RECURSIVE SeqsUpTo(_, _)
SeqsUpTo(S, n) ==
    IF n = 0 THEN {<<>>}
    ELSE LET shorter == SeqsUpTo(S, n - 1)
         IN shorter \cup {Append(t, x) : t \in {u \in shorter : Len(u) = n - 1}, x \in S}

\* The ranked chunk lists: the doc ids of the chunks
InjectRanked == {<<>>, <<"d1">>, <<"d2", "d1">>}

\* injection_content: the fixed preamble and the "[Source i: title]" parts
injection_content(ranked_chunks) == <<"context", ranked_chunks>>

\* msg.get("content", "")
get_content(msg) == IF msg.content = NoneStr THEN "" ELSE msg.content

\* The value a caller reads through a list of references into the heap
Deref(heap, list) == [k \in 1..Len(list) |-> heap[list[k]]]

\* RAGTransparency.inject_chunks_into_prompt on the heap of message dicts:
\* messages is the caller's list of references.  Gives the heap after the
\* call, the returned list, and whether that is the caller's list object.
inject_chunks_into_prompt(heap, messages, ranked_chunks, injection_strategy) ==
    LET users == {k \in 1..Len(messages) : heap[messages[k]].role = "user"}
        first == CHOOSE k \in users : \A j \in users : k <= j
        modified_messages == messages
    IN IF ranked_chunks = <<>>
       THEN [heap |-> heap, returned |-> messages, returned_is_input |-> TRUE]
       ELSE IF injection_strategy = "system"
       THEN [heap |-> Append(heap, Message("system", injection_content(ranked_chunks))),
             returned |-> <<Len(heap) + 1>> \o modified_messages,
             returned_is_input |-> FALSE]
       ELSE IF injection_strategy = "user" /\ users # {}
       THEN [heap |-> [heap EXCEPT ![modified_messages[first]].content =
                          <<injection_content(ranked_chunks), "User question:",
                            get_content(heap[modified_messages[first]])>>],
             returned |-> modified_messages,
             returned_is_input |-> FALSE]
       ELSE [heap |-> heap, returned |-> modified_messages, returned_is_input |-> FALSE]

InitInject ==
    /\ now = 0
    /\ breaker = [p \in Providers |-> NewBreaker]
    /\ registry = MainRegistry
    /\ req = [r \in Requests |-> IdleRequest]
    /\ route_in = NoRouteIn
    /\ route_out = NoRouteOut
    /\ load = NoLoad /\ singletons = NoSingletons /\ rerank = NoRerank /\ logs = NoLogs
    /\ \E msgs \in SeqsUpTo(InjectMessages, MaxMessages) :
          inject \in [pc : {"idle"}, heap : {msgs},
                      messages : {[k \in 1..Len(msgs) |-> k]}, original : {msgs},
                      ranked_chunks : InjectRanked, injection_strategy : {"system", "user", "assistant"},
                      returned : {<<>>}, returned_is_input : {FALSE}]

\* inject_chunks_into_prompt(messages, ranked_chunks, injection_strategy) is
\* called
Inject ==
    /\ inject.pc = "idle"
    /\ LET out == inject_chunks_into_prompt(inject.heap, inject.messages,
                                            inject.ranked_chunks, inject.injection_strategy)
       IN inject' = [inject EXCEPT !.pc = "done", !.heap = out.heap,
                                   !.returned = out.returned,
                                   !.returned_is_input = out.returned_is_input]
    /\ UNCHANGED <<now, breaker, registry, req, route_in, route_out, load, singletons, rerank, logs>>

NextInject == Inject

SpecInject == InitInject /\ [][NextInject]_vars

(***************************************************************************)
(* Observability API (routers/observability.py)                            *)
(***************************************************************************)
\* largest number of rows in request_logs
MaxLogs == 3

\* The callers: an admin and two users
ApiUsers ==
    {[id |-> "adm", role |-> "admin"], [id |-> "u1", role |-> "user"],
     [id |-> "u2", role |-> "user"]}

\* RequestLogs.get_logs with no filter: the rows by timestamp, newest first,
\* limit rows from offset on.  Rows are stored in the order of their
\* timestamps.
get_logs(store, limit, offset) ==
    LET n == Len(store)
        newest_first == [k \in 1..n |-> store[n + 1 - k]]
        last == IF offset + limit < n THEN offset + limit ELSE n
    IN SubSeq(newest_first, offset + 1, last)

\* get_request_log_detail: the status and the id of the log returned
get_request_log_detail(store, log_id, user) ==
    LET found_logs == get_logs(store, 1, 0)
        hits == {k \in 1..Len(found_logs) : found_logs[k].id = log_id}
        log == found_logs[CHOOSE k \in hits : \A j \in hits : k <= j]
    IN IF hits = {} THEN [status_code |-> 404, id |-> None]
       ELSE IF user.role # "admin" /\ log.user_id # user.id
            THEN [status_code |-> 403, id |-> None]
       ELSE [status_code |-> 200, id |-> log.id]

\* RequestLogs.insert_log: a request of user_id is logged under a new id
InsertLog(user_id) ==
    /\ Len(logs.store) < MaxLogs
    /\ logs' = [logs EXCEPT !.store = Append(logs.store,
                                             [id |-> Len(logs.store) + 1, user_id |-> user_id])]
    /\ UNCHANGED <<now, breaker, registry, req, route_in, route_out, load, singletons, rerank, inject>>

\* GET /logs/{log_id} by user
GetRequestLogDetail(log_id, user) ==
    /\ logs' = [logs EXCEPT !.log_id = log_id, !.user = user.id,
                             !.response = get_request_log_detail(logs.store, log_id, user)]
    /\ UNCHANGED <<now, breaker, registry, req, route_in, route_out, load, singletons, rerank, inject>>

InitLogs ==
    /\ now = 0
    /\ breaker = [p \in Providers |-> NewBreaker]
    /\ registry = MainRegistry
    /\ req = [r \in Requests |-> IdleRequest]
    /\ route_in = NoRouteIn
    /\ route_out = NoRouteOut
    /\ IdleAside

NextLogs ==
    \/ \E u \in {"u1", "u2"} : InsertLog(u)
    \/ \E log_id \in 1..(MaxLogs + 1), user \in ApiUsers : GetRequestLogDetail(log_id, user)

SpecLogs == InitLogs /\ [][NextLogs]_vars

(***************************************************************************)
(* Aggregated metrics (models/observability.py, RequestLogs.get_metrics)   *)
(***************************************************************************)
\* largest number of rows get_metrics aggregates
MaxRows == 3

\* A fraction num / den, as Python's true division gives it
Fraction(num, den) == [num |-> num, den |-> den]

\* list.sort() of a list of numbers: insertion into the sorted rest
RECURSIVE list_sort(_)
list_sort(s) ==
    IF s = <<>> THEN <<>>
    ELSE LET rest == list_sort(Tail(s))
             below == {k \in 1..Len(rest) : rest[k] < Head(s)}
             n == Cardinality(below)
         IN SubSeq(rest, 1, n) \o <<Head(s)>> \o SubSeq(rest, n + 1, Len(rest))

\* The calls of complete() that are logged: whether the executor returned a
\* response, how many attempts it reported, the RAG fields of the request and
\* the wall-clock time the call took (0 when the clock did not move)
MetricsCalls ==
    {[ok |-> TRUE,  attempts |-> 0, rag_enabled |-> FALSE, rag_chunks |-> 0, elapsed_ms |-> 5],
     [ok |-> TRUE,  attempts |-> 0, rag_enabled |-> FALSE, rag_chunks |-> 2, elapsed_ms |-> 0],
     [ok |-> TRUE,  attempts |-> 0, rag_enabled |-> TRUE,  rag_chunks |-> 2, elapsed_ms |-> 9],
     [ok |-> TRUE,  attempts |-> 2, rag_enabled |-> TRUE,  rag_chunks |-> 0, elapsed_ms |-> 7],
     [ok |-> TRUE,  attempts |-> 2, rag_enabled |-> FALSE, rag_chunks |-> 0, elapsed_ms |-> 9],
     [ok |-> FALSE, attempts |-> 2, rag_enabled |-> FALSE, rag_chunks |-> 2, elapsed_ms |-> 5],
     [ok |-> FALSE, attempts |-> 1, rag_enabled |-> TRUE,  rag_chunks |-> 2, elapsed_ms |-> 7],
     [ok |-> FALSE, attempts |-> 1, rag_enabled |-> TRUE,  rag_chunks |-> 0, elapsed_ms |-> 0]}

\* A row whose rag_used follows the chunks of the request alone
complete_row_chunks_alone(call) ==
    [error_type |-> IF call.ok THEN NoneStr ELSE "all_fallbacks_failed",
     fallback_used |-> IF call.ok THEN call.attempts > 0 ELSE TRUE,
     rag_attempted |-> call.rag_enabled,
     rag_used |-> call.rag_chunks > 0,
     total_latency_ms |-> call.elapsed_ms]

\* The request log complete() writes for a call: the success log (lines
\* 195-215) or the failure log (lines 240-255).  selected_chunks is filled
\* only when rag_enabled and rag_chunks are both truthy, with the top 5.
complete_row(call) ==
    LET selected_chunks ==
            IF call.rag_enabled /\ call.rag_chunks > 0
            THEN (IF call.rag_chunks < 5 THEN call.rag_chunks ELSE 5) ELSE 0
    IN IF call.ok
       THEN [error_type |-> NoneStr,
             fallback_used |-> call.attempts > 0,
             rag_attempted |-> call.rag_enabled,
             rag_used |-> selected_chunks > 0,
             total_latency_ms |-> call.elapsed_ms]
       ELSE [error_type |-> "all_fallbacks_failed",
             fallback_used |-> TRUE,
             rag_attempted |-> call.rag_enabled,
             rag_used |-> FALSE,
             total_latency_ms |-> call.elapsed_ms]

\* RequestLogs.get_metrics with no filter (the breakdowns and the average are
\* left out)
get_metrics(store) ==
    LET total == Len(store)
        rows == 1..total
        errors == Cardinality({k \in rows : store[k].error_type # NoneStr})
        fallbacks == Cardinality({k \in rows : store[k].fallback_used})
        rag_attempted == Cardinality({k \in rows : store[k].rag_attempted})
        rag_used == Cardinality({k \in rows : store[k].rag_used})
        truthy == {k \in rows : store[k].total_latency_ms # 0}
        latencies == list_sort([k \in 1..Cardinality(truthy) |->
                        store[CHOOSE j \in truthy :
                                Cardinality({m \in truthy : m < j}) = k - 1].total_latency_ms])
        n == Len(latencies)
    IN IF total = 0
       THEN [total_requests |-> 0, error_rate |-> Fraction(0, 1), fallback_rate |-> Fraction(0, 1),
             p50_latency_ms |-> 0, p95_latency_ms |-> 0, rag_hit_rate |-> Fraction(0, 1)]
       ELSE [total_requests |-> total,
             error_rate |-> Fraction(errors, total),
             fallback_rate |-> Fraction(fallbacks, total),
             p50_latency_ms |-> IF n > 0 THEN latencies[(n \div 2) + 1] ELSE 0,
             p95_latency_ms |-> IF n > 0 THEN latencies[((n * 95) \div 100) + 1] ELSE 0,
             rag_hit_rate |-> IF rag_attempted > 0 THEN Fraction(rag_used, rag_attempted)
                              ELSE Fraction(0, 1)]

\* complete() writes its request log
CompleteLogs(call) ==
    /\ Len(logs.store) < MaxRows
    /\ logs' = [logs EXCEPT !.store = Append(logs.store, complete_row(call))]
    /\ UNCHANGED <<now, breaker, registry, req, route_in, route_out, load, singletons, rerank, inject>>

\* GET /metrics
GetMetrics ==
    /\ logs' = [logs EXCEPT !.metrics = get_metrics(logs.store)]
    /\ UNCHANGED <<now, breaker, registry, req, route_in, route_out, load, singletons, rerank, inject>>

NextMetrics ==
    \/ \E call \in MetricsCalls : CompleteLogs(call)
    \/ GetMetrics

SpecMetrics == InitLogs /\ [][NextMetrics]_vars

(***************************************************************************)
(* Recovery of a breaker: attempts fail for a while, then all succeed      *)
(***************************************************************************)
\* Attempts can fail up to MaxTime; from then on every attempt succeeds
CanFail == now <= MaxTime

\* The upstream answers 200
Ok == [ev |-> "status", code |-> 200]

\* The clock advances, up to one cool-down past MaxTime
TickRecover ==
    /\ now < MaxTime + timeout_seconds
    /\ now' = now + 1
    /\ UNCHANGED <<breaker, registry, req, route_in, route_out, aside>>

\* Two callers of execute_with_fallback on provider p1 and the clock
NextRecover ==
    \/ \E r \in Requests : StartExecute(r, "a", <<>>)
    \/ \E r \in Requests : NextCandidate(r)
    \/ \E r \in Requests : AttemptReturns(r, Ok)
    \/ \E r \in Requests, up \in Upstream \ {Ok} : CanFail /\ AttemptReturns(r, up)
    \/ \E r \in Requests : CanFail /\ AttemptTimesOut(r)
    \/ \E r \in Requests : AllFailed(r)
    \/ TickRecover

\* Time keeps advancing, requests for the provider keep arriving, and the
\* event loop runs every coroutine that can take its next step: a call in
\* flight ends, and after MaxTime it can only end in a success.
SpecRecover ==
    /\ Init
    /\ [][NextRecover]_vars
    /\ WF_vars(TickRecover)
    /\ \A r \in Requests :
          /\ WF_vars(StartExecute(r, "a", <<>>))
          /\ WF_vars(NextCandidate(r))
          /\ WF_vars(AttemptReturns(r, Ok))
          /\ WF_vars(AllFailed(r))

(***************************************************************************)
(* Properties of the circuit breaker (checked under SpecConcurrent)        *)
(***************************************************************************)
\* The provider of the candidate request r is at
ProviderOf(r) == get_model(registry, req[r].chain[req[r].i]).provider

\* Request r has an attempt in flight for provider p
InFlight(r, p) == req[r].pc = "await" /\ ProviderOf(r) = p

\* This step is can_attempt(p) asked by request r for its candidate
AdmissionCheck(r, p) ==
    /\ req[r].pc = "loop"
    /\ req[r].i <= Len(req[r].chain)
    /\ validate_model_exists(registry, req[r].chain[req[r].i])
    /\ ProviderOf(r) = p
    /\ req'[r] # req[r]

\* The check of request r returned False: the candidate is skipped
Rejected(r) == req'[r].pc = "loop" /\ req'[r].i = req[r].i + 1
\* The check of request r returned True: the attempt starts
Admitted(r) == req'[r].pc = "await" /\ req'[r].i = req[r].i

\* C1: whenever a breaker is open, its opened_at is set and its failure_count
\* has reached the threshold.
C1_OpenHasCountAndTime ==
    \A p \in Providers :
        breaker[p].state = "open" =>
            /\ breaker[p].opened_at # None
            /\ breaker[p].failure_count >= failure_threshold

\* C2: a failure recorded while the breaker is half_open moves it to open with
\* opened_at set to the time of the failure; it does not stay half_open.
C2_HalfOpenFailureReopens ==
    [][\A p \in Providers :
          (/\ breaker[p].state = "half_open"
           /\ breaker'[p].failure_count = breaker[p].failure_count + 1)
          => (breaker'[p].state = "open" /\ breaker'[p].opened_at = now)]_vars

\* C9: while a breaker is half_open at most one attempt admitted after the
\* cooldown (a probe) is in flight for its provider.
C9_OneProbeInFlight ==
    \A p \in Providers :
        breaker[p].state = "half_open" =>
            Cardinality({r \in Requests :
                            /\ InFlight(r, p)
                            /\ req[r].start_time - breaker[p].opened_at >= timeout_seconds}) <= 1

\* C10: can_attempt on an open breaker before the cooldown has elapsed returns
\* false and leaves the breaker as it is; once now - opened_at >= cooldown it
\* moves the breaker to half_open (nothing else changes) and returns true.
C10_CooldownGate ==
    [][\A r \in Requests, p \in Providers :
          (AdmissionCheck(r, p) /\ breaker[p].state = "open")
          => IF now - breaker[p].opened_at < timeout_seconds
             THEN breaker' = breaker /\ Rejected(r)
             ELSE /\ breaker' = [breaker EXCEPT ![p].state = "half_open"]
                  /\ Admitted(r)]_vars

\* A request was turned away by the open breaker, and later the breaker let a
\* probe in at the very tick the cooldown ended.
C10_Witness ==
    \E r, q \in Requests, p \in Providers :
        /\ \E k \in 1..Len(req[r].attempts) :
              req[r].attempts[k].error_type = "circuit_breaker_open"
        /\ breaker[p].state = "half_open"
        /\ InFlight(q, p)
        /\ req[q].start_time - breaker[p].opened_at = timeout_seconds

(***************************************************************************)
(* Properties of the executor and of complete() (checked under Spec)       *)
(***************************************************************************)
\* The 4xx statuses that are the client's fault (408 is a timeout)
ClientErrors == {up \in Upstream : up.ev = "status" /\ up.code \in {400, 401, 403, 404, 429}}

\* The ids of a chain
Ids(chain) == {chain[k] : k \in 1..Len(chain)}

\* C3: once a streaming request has delivered a chunk, no further candidate
\* is attempted: the executor stays at the candidate the first chunk came
\* from, and every chunk delivered comes from that candidate.
C3_NoCandidateAfterFirstChunk ==
    \A r \in Requests :
        req[r].chunks # <<>> =>
            /\ req[r].i = req[r].chunks[1]
            /\ \A k \in 1..Len(req[r].chunks) : req[r].chunks[k] = req[r].chunks[1]

\* C4: an upstream 400, 401, 403, 404 or 429 leaves every breaker as it was,
\* in the unary and in the streaming executor, and the executor goes on with
\* the next candidate.
C4_ClientErrorSparesBreaker ==
    [][\A r \in Requests, up \in ClientErrors :
          (AttemptReturns(r, up) \/ StreamOpens(r, up))
          => /\ breaker' = breaker
             /\ req'[r].pc = "loop"
             /\ req'[r].i = req[r].i + 1]_vars

\* C5: a response returned by execute_with_fallback comes from the adapter
\* call made for a model id of the chain, and the request sent by that call
\* had its model field set to that id.
C5_ResponseFromChainModel ==
    \A r \in Requests :
        req[r].result.kind = "response" =>
            /\ req[r].result.model_id \in Ids(req[r].chain)
            /\ req[r].result.sent_model = req[r].result.model_id

\* A fallback candidate, other than the primary model, has answered
C5_Witness ==
    \E r \in Requests :
        /\ req[r].result.kind = "response"
        /\ req[r].i > 1
        /\ req[r].result.model_id # req[r].chain[1]
        /\ req[r].result.sent_model = req[r].chain[req[r].i]

\* The successful attempt of a logged chain is not the first one
SuccessNotFirst(fallback_chain) ==
    \E k \in 1..Len(fallback_chain) :
        fallback_chain[k].status_code = 200 /\ fallback_chain[k].attempt_n > 1

\* C7: in every request log complete() writes, fallback_used is true exactly
\* when the logged chain is non-empty and the successful attempt was not the
\* first.
C7_FallbackUsedMatchesChain ==
    \A r \in Requests :
        req[r].log.written =>
            (req[r].log.fallback_used
                <=> (req[r].log.fallback_chain # <<>>
                     /\ SuccessNotFirst(req[r].log.fallback_chain)))

\* C8: when every candidate failed, the attempts the executor made reach the
\* observability record: the request log complete() writes for the request
\* holds that attempt list.  (The all_fallbacks_failed error itself has a
\* status code and a tag and no field for attempts.)
C8_FailureLogHasAttempts ==
    \A r \in Requests :
        (/\ req[r].pc = "done"
         /\ req[r].kind = "complete"
         /\ req[r].result.error_type = "all_fallbacks_failed")
        => (req[r].log.written /\ req[r].log.fallback_chain = req[r].attempts)

(***************************************************************************)
(* Properties of route() (checked under SpecRoute)                         *)
(***************************************************************************)
\* route() has returned a decision
Decided == route_out # NoRouteOut /\ route_out # RouteRaises

\* The ids of a decision: the primary and the fallbacks
DecisionIds(d) == {d.primary_model_id} \cup Ids(d.fallback_model_ids)

\* id names a registry entry that passes capability validation
Feasible(reg, id, context) ==
    \E k \in 1..Len(reg.models) :
        reg.models[k].id = id /\ _validate_capabilities(reg.models[k], context)

\* The entry the registry looks up under id passes capability validation
LookupFeasible(reg, id, context) ==
    validate_model_exists(reg, id) /\ _validate_capabilities(get_model(reg, id), context)

OverrideAccepted ==
    /\ route_in.override # NoneStr
    /\ LookupFeasible(registry, route_in.override, route_in.context)

\* Rule k of the registry matches the context and its primary exists and is
\* feasible
RuleUsable(k) ==
    /\ _matches_route(registry.routes[k], route_in.context)
    /\ LookupFeasible(registry, registry.routes[k].use_model, route_in.context)

\* The declared fallbacks of rule k with the unknown and infeasible ids dropped
DeclaredFeasible(k) ==
    SelectSeq(registry.routes[k].fallback_models,
              LAMBDA id : LookupFeasible(registry, id, route_in.context))

\* C21: with no override accepted, the decision is that of the first rule in
\* configuration order that matches and whose primary exists and is feasible:
\* its name, primary and timeout, and its declared fallbacks with infeasible
\* and unknown ids dropped, order kept; no later rule is chosen over it.
C21_FirstUsableRuleWins ==
    (Decided /\ ~OverrideAccepted) =>
        \A k \in 1..Len(registry.routes) :
            (RuleUsable(k) /\ \A j \in 1..(k - 1) : ~RuleUsable(j))
            => /\ route_out.route_name = registry.routes[k].name
               /\ route_out.primary_model_id = registry.routes[k].use_model
               /\ route_out.timeout_ms = registry.routes[k].timeout_ms
               /\ route_out.fallback_model_ids = DeclaredFeasible(k)

\* A rule that is not the first was chosen: an earlier rule matched but its
\* primary was unusable, a later rule was usable too, and one declared
\* fallback was dropped.
C21_Witness ==
    /\ Decided /\ ~OverrideAccepted
    /\ \E k \in 2..Len(registry.routes) :
          /\ RuleUsable(k) /\ \A j \in 1..(k - 1) : ~RuleUsable(j)
          /\ route_out.route_name = registry.routes[k].name
          /\ \E j \in 1..(k - 1) : _matches_route(registry.routes[j], route_in.context)
          /\ \E l \in (k + 1)..Len(registry.routes) : RuleUsable(l)
          /\ route_out.fallback_model_ids # registry.routes[k].fallback_models

\* C22: an override is honoured exactly when its model exists and passes
\* capability validation; the decision is then user_override with that model
\* as primary.  Otherwise the decision is the one the same context gets with
\* no override.
C22_OverrideHonouredIffFeasible ==
    (Decided /\ route_in.override # NoneStr) =>
        IF OverrideAccepted
        THEN /\ route_out.route_name = "user_override"
             /\ route_out.primary_model_id = route_in.override
        ELSE /\ route_out.route_name # "user_override"
             /\ route_out = route(registry, route_in.context, NoneStr)

\* An override that names a registered model was rejected for its
\* capabilities, and the rules chose another model.
C22_Witness ==
    /\ Decided
    /\ route_in.override # NoneStr
    /\ validate_model_exists(registry, route_in.override)
    /\ ~OverrideAccepted
    /\ route_out.primary_model_id # route_in.override
    /\ route_out.route_name \notin {"default", "fallback_no_match"}

\* _get_fallback_models as the claim words it: the feasible entries other than
\* the primary, in the order (reliability desc, speed desc, cost asc), at most
\* three.  Entries with equal keys may come in either order.
IsSynthesized(chain, primary) ==
    LET others == {k \in 1..Len(registry.models) :
                     /\ registry.models[k].id # primary
                     /\ _validate_capabilities(registry.models[k], route_in.context)}
        key(k) == <<-registry.models[k].reliability_tier,
                    -registry.models[k].speed_tier,
                    registry.models[k].cost_tier>>
        n == IF Cardinality(others) < 3 THEN Cardinality(others) ELSE 3
    IN /\ Len(chain) = n
       /\ \E f \in [1..n -> others] :
             /\ \A a, b \in 1..n : a < b => (f[a] # f[b] /\ ~KeyLess(key(f[b]), key(f[a])))
             /\ \A a \in 1..n : chain[a] = registry.models[f[a]].id
             /\ \A o \in others : (\A a \in 1..n : f[a] # o) =>
                    \A a \in 1..n : ~KeyLess(key(o), key(f[a]))

\* The decision came from a configured rule whose declared fallbacks are empty
EmptyChainRule ==
    \E k \in 1..Len(registry.routes) :
        /\ RuleUsable(k) /\ \A j \in 1..(k - 1) : ~RuleUsable(j)
        /\ registry.routes[k].fallback_models = <<>>

\* C23: the fallback chain of a user_override decision, and of a decision by
\* a rule whose declared chain is empty, is synthesized: the feasible models
\* other than the primary, sorted by (reliability desc, speed desc, cost asc),
\* the first three.
C23_EmptyChainSynthesized ==
    Decided =>
        /\ route_out.route_name = "user_override"
             => IsSynthesized(route_out.fallback_model_ids, route_out.primary_model_id)
        /\ (~OverrideAccepted /\ EmptyChainRule)
             => IsSynthesized(route_out.fallback_model_ids, route_out.primary_model_id)

\* The user_override half of C23 on its own
C23_OverrideChainSynthesized ==
    (Decided /\ route_out.route_name = "user_override")
    => IsSynthesized(route_out.fallback_model_ids, route_out.primary_model_id)

(***************************************************************************)
(* Properties of load_config (checked under SpecLoad)                      *)
(***************************************************************************)
\* The load validations of a configuration: model ids unique, every model a
\* route names as primary or fallback exists, tier fields in 1..3
PassesLoadValidations(config) ==
    /\ \A j, k \in 1..Len(config.models) :
          config.models[j].id = config.models[k].id => j = k
    /\ \A k \in 1..Len(config.routes) :
          \A id \in {config.routes[k].use_model} \cup Ids(config.routes[k].fallback_models) :
              \E j \in 1..Len(config.models) : config.models[j].id = id
    /\ \A k \in 1..Len(config.models) : TierFieldsValid(config.models[k])

\* C24: after load_config returns, the registry holds a configuration that
\* passes all load validations (unique ids, referenced models exist, tiers in
\* 1..3) or the built-in default; load_config never raises.
C24_LoadedConfigIsValid ==
    load.pc = "done" =>
        /\ ~load.raised
        /\ PassesLoadValidations(registry) \/ registry = _load_defaults

\* The part of C24 the field constraints give: after load_config returns
\* without raising, every tier of the active configuration is in 1..3, and a
\* missing or malformed document leaves the built-in default.
C24_TiersValidOrDefault ==
    load.pc = "done" =>
        /\ ~load.raised
        /\ \A k \in 1..Len(registry.models) : TierFieldsValid(registry.models[k])
        /\ (load.document.kind # "config" \/ ConfigRaises(load.document))
             => registry = _load_defaults

(***************************************************************************)
(* Properties of the singletons (checked under SpecSingletons)             *)
(***************************************************************************)
\* C25: under any interleaving of reloads, request handling and the lazy
\* creation of the router and fallback-handler singletons, the router that
\* routed a request and the executor that executed it resolved model ids
\* against one and the same registry snapshot.
C25_OneSnapshotPerRequest ==
    \A r \in Requests :
        singletons.served[r].pc = "done"
        => singletons.served[r].routed_on = singletons.served[r].executed_on

(***************************************************************************)
(* Properties of the reranker (checked under SpecRerank)                   *)
(***************************************************************************)
\* The result of the rerank call, once it has returned
Reranked == rerank.pc = "done"

\* ranked is in descending order of final_score
SortedByFinalScore(ranked) ==
    \A k \in 1..(Len(ranked) - 1) : ranked[k].final_score >= ranked[k + 1].final_score

\* every preview is the first 400 characters, with the ellipsis exactly when
\* the content is longer, so at most 403 long
PreviewsBounded(ranked) ==
    \A k \in 1..Len(ranked) :
        /\ ranked[k].preview.length <= 403
        /\ ranked[k].preview.ellipsis <=> ranked[k].chunk.content.chars > 400
        /\ ranked[k].preview.length =
              Min(ranked[k].chunk.content.chars, 400) + (IF ranked[k].preview.ellipsis THEN 3 ELSE 0)

\* C26: for every query, candidate list and integer top_k >= 0 the output of
\* rerank is sorted by final_score descending, has at most top_k chunks, and
\* every preview is at most 403 long.
C26_SortedCutAndPreviewed ==
    (Reranked /\ rerank.top_k # None) =>
        /\ SortedByFinalScore(rerank.ranked_chunks)
        /\ Len(rerank.ranked_chunks) <= rerank.top_k
        /\ PreviewsBounded(rerank.ranked_chunks)

\* C26 without the case top_k = 0: sorted, cut to a positive top_k, previews
\* bounded
C26_SortedCutWhenPositive ==
    Reranked =>
        /\ SortedByFinalScore(rerank.ranked_chunks)
        /\ (rerank.top_k # None /\ rerank.top_k > 0)
             => Len(rerank.ranked_chunks) <= rerank.top_k
        /\ PreviewsBounded(rerank.ranked_chunks)

\* The call of the weight test: the query "exact query match" on the two
\* candidates d1 (vector 0.5, every query term) and d2 (vector 0.9, none)
WeightTest ==
    /\ Reranked
    /\ rerank.query = Text(<<"exact", "query", "match">>, 17)
    /\ rerank.chunks = <<D1, D2>>
    /\ rerank.top_k \in {None, 2}

\* C27: in the weight test rerank puts d1 first under the weights (0.1, 0.9)
\* and d2 first under the weights (0.9, 0.1).
C27_LexicalWeightFlipsOrder ==
    WeightTest =>
        /\ (rerank.vector_weight = 1 /\ rerank.lexical_weight = 9)
             => rerank.ranked_chunks[1].chunk = D1
        /\ (rerank.vector_weight = 9 /\ rerank.lexical_weight = 1)
             => rerank.ranked_chunks[1].chunk = D2

\* C28: the lexical score rerank gives each candidate lies in [0, 1], also
\* when a query term occurs in more than half of the candidates.
C28_LexicalScoreInUnitInterval ==
    Reranked =>
        \A k \in 1..Len(rerank.ranked_chunks) :
            /\ rerank.ranked_chunks[k].rerank_score >= 0
            /\ rerank.ranked_chunks[k].rerank_score <= 1000

(***************************************************************************)
(* Properties of prompt injection (checked under SpecInject)               *)
(***************************************************************************)
\* C29: inject_chunks_into_prompt never changes its input: for both
\* strategies and every ranked list the caller's message list and every
\* message in it are the same after the call as before; with an empty ranked
\* list the returned messages are deep-equal to the input.
C29_InputNeverMutated ==
    inject.pc = "done" =>
        /\ Deref(inject.heap, inject.messages) = inject.original
        /\ inject.ranked_chunks = <<>>
             => Deref(inject.heap, inject.returned) = inject.original

\* The part of C29 that holds: the system strategy and an empty ranked list
\* leave the caller's messages as they were, and an empty ranked list returns
\* them
C29_SystemStrategyLeavesInput ==
    (inject.pc = "done" /\ (inject.injection_strategy # "user" \/ inject.ranked_chunks = <<>>)) =>
        /\ Deref(inject.heap, inject.messages) = inject.original
        /\ inject.ranked_chunks = <<>>
             => Deref(inject.heap, inject.returned) = inject.original

(***************************************************************************)
(* Properties of the observability API (checked under SpecLogs)            *)
(***************************************************************************)
\* The answer C30 asks of GET /logs/{log_id} by user on the table store
DetailAnswer(store, log_id, user) ==
    IF \E k \in 1..Len(store) : store[k].id = log_id
    THEN LET log == store[CHOOSE k \in 1..Len(store) : store[k].id = log_id]
         IN IF user.role = "admin" \/ log.user_id = user.id
            THEN [status_code |-> 200, id |-> log_id]
            ELSE [status_code |-> 403, id |-> None]
    ELSE [status_code |-> 404, id |-> None]

\* C30: for every stored request log, however many logs were written after
\* it, GET /logs/{id} returns its detail to an admin and to its owner and 403
\* to anyone else; it answers 404 only when no log has that id.
C30_DetailByIdForAnyLog ==
    [][\A log_id \in 1..(MaxLogs + 1), user \in ApiUsers :
          GetRequestLogDetail(log_id, user)
          => logs'.response = DetailAnswer(logs.store, log_id, user)]_vars

\* The part of C30 that holds: the newest log is answered as C30 asks, and a
\* 200 or 403 answer is always the one C30 asks for
C30_DetailOfNewestLog ==
    [][\A log_id \in 1..(MaxLogs + 1), user \in ApiUsers :
          GetRequestLogDetail(log_id, user)
          => \/ log_id # Len(logs.store) /\ logs'.response.status_code = 404
             \/ logs'.response = DetailAnswer(logs.store, log_id, user)]_vars

(***************************************************************************)
(* Properties of the metrics (checked under SpecMetrics)                   *)
(***************************************************************************)
\* A fraction lies in [0, 1]
InUnitInterval(f) == f.den > 0 /\ 0 <= f.num /\ f.num <= f.den

\* The non-zero latencies of the table, in table order
Latencies ==
    LET truthy == {k \in 1..Len(logs.store) : logs.store[k].total_latency_ms # 0}
    IN [k \in 1..Cardinality(truthy) |->
           logs.store[CHOOSE j \in truthy :
                         Cardinality({m \in truthy : m < j}) = k - 1].total_latency_ms]

\* v is the element at 0-based index idx of the sorted list of s
ElementAt(s, idx, v) ==
    /\ \E k \in 1..Len(s) : s[k] = v
    /\ Cardinality({k \in 1..Len(s) : s[k] < v}) <= idx
    /\ idx < Cardinality({k \in 1..Len(s) : s[k] <= v})

\* The metrics answered are those of the table as it is
MetricsAnswered == logs.metrics # NoMetrics /\ logs.metrics = get_metrics(logs.store)

\* C31: for every non-empty table of request logs written by complete(), the
\* metrics have error_rate, fallback_rate and rag_hit_rate in [0, 1] and
\* p50_latency_ms <= p95_latency_ms, p50 and p95 being the elements at indices
\* floor(n/2) and floor(0.95*n) of the n sorted latencies.
C31_MetricsInRange ==
    (MetricsAnswered /\ Len(logs.store) > 0) =>
        LET m == logs.metrics
            n == Len(Latencies)
        IN /\ InUnitInterval(m.error_rate)
           /\ InUnitInterval(m.fallback_rate)
           /\ InUnitInterval(m.rag_hit_rate)
           /\ m.p50_latency_ms <= m.p95_latency_ms
           /\ n > 0 => /\ ElementAt(Latencies, n \div 2, m.p50_latency_ms)
                       /\ ElementAt(Latencies, (n * 95) \div 100, m.p95_latency_ms)

\* Three latencies are aggregated, the median below the 95th percentile, with
\* a RAG hit rate strictly between 0 and 1
C31_Witness ==
    /\ MetricsAnswered
    /\ Len(Latencies) = 3
    /\ logs.metrics.p50_latency_ms < logs.metrics.p95_latency_ms
    /\ logs.metrics.rag_hit_rate.num > 0
    /\ logs.metrics.rag_hit_rate.num < logs.metrics.rag_hit_rate.den

(***************************************************************************)
(* Further properties of the breaker (checked under SpecConcurrent)        *)
(***************************************************************************)
\* This step records a success for provider p: an attempt returned, a stream
\* ended, or the admin reset it
SuccessRecorded(p) ==
    \/ reset_circuit_breaker(p)
    \/ \E r \in Requests :
          /\ InFlight(r, p)
          /\ req'[r].result.kind \in {"response", "stream_end"}
          /\ req'[r].pc = "done"

\* C11: after any recorded success the failure_count is 0, whatever the state
\* was; a success recorded on a half_open breaker closes it and clears
\* opened_at.
C11_SuccessResetsCount ==
    [][\A p \in Providers :
          SuccessRecorded(p)
          => /\ breaker'[p].failure_count = 0
             /\ breaker[p].state = "half_open"
                  => breaker'[p].state = "closed" /\ breaker'[p].opened_at = None]_vars

\* A breaker that refused a request is closed again, counter and opened_at
\* cleared: a probe admitted in half_open has succeeded.
C11_Witness ==
    \E r \in Requests, p \in Providers :
        /\ \E k \in 1..Len(req[r].attempts) :
              /\ req[r].attempts[k].error_type = "circuit_breaker_open"
              /\ req[r].attempts[k].provider = p
        /\ breaker[p] = NewBreaker

\* C12: a closed breaker has opened_at = None and failure_count below the
\* threshold, in every state; opened_at is stamped only by the step that takes
\* a closed breaker to open, and with the time of that step.
C12_ClosedBelowThreshold ==
    [][\A p \in Providers :
          /\ breaker[p].state = "closed"
                => breaker[p].opened_at = None /\ breaker[p].failure_count < failure_threshold
          /\ breaker'[p].state = "closed"
                => breaker'[p].opened_at = None /\ breaker'[p].failure_count < failure_threshold
          /\ (breaker'[p].opened_at # breaker[p].opened_at /\ breaker'[p].opened_at # None)
                => /\ breaker[p].state = "closed"
                   /\ breaker'[p].state = "open"
                   /\ breaker'[p].opened_at = now]_vars

\* The failure that reached the threshold has just opened the breaker
C12_Witness ==
    \E p \in Providers :
        /\ breaker[p].state = "open"
        /\ breaker[p].failure_count = failure_threshold
        /\ breaker[p].opened_at = now

(***************************************************************************)
(* Further properties of the unary executor (checked under Spec)           *)
(***************************************************************************)
\* The last record of a non-empty attempt list
LastAttempt(rq) == rq.attempts[Len(rq.attempts)]

\* The breaker of p refuses an attempt now: it is open and has not cooled down
Refuses(p) ==
    breaker[p].state = "open" /\ now - breaker[p].opened_at < timeout_seconds

\* C13: when the breaker refuses the provider of a candidate, the unary
\* executor makes no adapter call for it, appends an attempt with tag
\* circuit_breaker_open, status 503 and latency 0, leaves every breaker as it
\* is and goes on with the next candidate.
C13_RefusedCandidateSkipped ==
    [][\A r \in Requests, p \in Providers :
          (AdmissionCheck(r, p) /\ Unary(req[r]) /\ Refuses(p))
          => /\ breaker' = breaker
             /\ req'[r] = [req[r] EXCEPT
                             !.i = req[r].i + 1,
                             !.attempts =
                                 Append(req[r].attempts,
                                        FallbackAttempt(req[r].i, req[r].chain[req[r].i], p,
                                                        503, "circuit_breaker_open", 0))]]_vars

\* The primary was refused by its breaker and the request succeeded on a
\* fallback of another provider
C13_Witness ==
    \E r \in Requests :
        /\ req[r].result.kind = "response"
        /\ Len(req[r].attempts) = 2
        /\ req[r].attempts[1].error_type = "circuit_breaker_open"
        /\ req[r].attempts[1].status_code = 503
        /\ req[r].attempts[1].latency_ms = 0
        /\ req[r].attempts[2].status_code = 200
        /\ req[r].attempts[2].provider # req[r].attempts[1].provider
        /\ breaker[req[r].attempts[1].provider].state = "open"

\* The upstream answers with a 5xx status
ServerErrors == {up \in Upstream : up.ev = "status" /\ up.code >= 500}

\* The attempt list of a request that succeeded at candidate rq.i: empty for
\* the first candidate, else earlier failures in chain order and then the
\* success record
SuccessList(rq) ==
    IF rq.i = 1 THEN rq.attempts = <<>>
    ELSE /\ rq.attempts # <<>>
         /\ LastAttempt(rq).attempt_n = rq.i
         /\ LastAttempt(rq).status_code = 200
         /\ LastAttempt(rq).error_type = NoneStr
         /\ \A k \in 1..(Len(rq.attempts) - 1) :
               /\ rq.attempts[k].status_code # 200
               /\ rq.attempts[k].error_type # NoneStr
               /\ rq.attempts[k].attempt_n < rq.attempts[k + 1].attempt_n

\* C14: the attempt list returned on success is empty when the first attempt
\* succeeded, else one record per earlier failed or skipped candidate, in
\* chain order, then the success record (status 200, no tag); a candidate
\* that failed with an upstream 5xx is recorded with that status and the tag
\* server_error, and its breaker is charged one failure.
C14_AttemptListOnSuccess ==
    [][\A r \in Requests :
          /\ (Unary(req[r]) /\ req[r].pc = "await" /\ req'[r].result.kind = "response")
                => SuccessList(req'[r])
          /\ \A up \in ServerErrors :
                AttemptReturns(r, up)
                => /\ LastAttempt(req'[r]).status_code = up.code
                   /\ LastAttempt(req'[r]).error_type = "server_error"
                   /\ breaker'[ProviderOf(r)].failure_count
                        = breaker[ProviderOf(r)].failure_count + 1]_vars

\* C15: when the deadline of an attempt expires, the executor records a
\* breaker failure for the provider, appends an attempt with tag timeout and
\* advances to the next candidate; with no candidate left the request ends
\* with a provider error.
C15_DeadlineExpiry ==
    [][\A r \in Requests :
          /\ AttemptTimesOut(r)
                => /\ breaker'[ProviderOf(r)].failure_count
                        = breaker[ProviderOf(r)].failure_count + 1
                   /\ req'[r].attempts =
                        Append(req[r].attempts,
                               FallbackAttempt(req[r].i, req[r].chain[req[r].i], ProviderOf(r),
                                               408, "timeout", now - req[r].start_time))
                   /\ req'[r].pc = "loop"
                   /\ req'[r].i = req[r].i + 1
          /\ (req[r].pc = "loop" /\ req[r].i > Len(req[r].chain) /\ req'[r] # req[r])
                => /\ req'[r].pc = "done"
                   /\ req'[r].result = ProviderError(500, "all_fallbacks_failed")]_vars

\* The last candidate timed out and the request failed with the provider
\* error
C15_Witness ==
    \E r \in Requests :
        /\ req[r].pc = "done"
        /\ req[r].result.error_type = "all_fallbacks_failed"
        /\ Len(req[r].attempts) = 2
        /\ req[r].attempts[1].error_type = "timeout"
        /\ LastAttempt(req[r]).error_type = "timeout"
        /\ LastAttempt(req[r]).status_code = 408
        /\ LastAttempt(req[r]).attempt_n = Len(req[r].chain)
        /\ breaker[LastAttempt(req[r]).provider].failure_count >= 1

(***************************************************************************)
(* Properties of complete(): cancellation and logging (SpecComplete)       *)
(***************************************************************************)
\* Request r is a complete() call that has ended
Completed(r) == req[r].kind = "complete" /\ req[r].pc = "done"

\* The complete() call of request r was cancelled by its caller
Cancelled(r) == Completed(r) /\ req[r].result.error_type = "CancelledError"

\* The executor of request r ended on its own: a candidate succeeded or all
\* candidates failed
Executed(r) ==
    Completed(r) /\ req[r].result.error_type \notin {"CancelledError", "IndexError"}

\* C16: a cancellation while an attempt is in flight ends the request there;
\* no further candidate is attempted, no attempt is recorded and every breaker
\* is left as it was.
C16_CancelChargesNothing ==
    [][\A r \in Requests :
          Cancel(r)
          => /\ breaker' = breaker
             /\ req'[r] = [req[r] EXCEPT !.pc = "done", !.start_time = None,
                                         !.result = Raised("CancelledError")]]_vars

\* A request was cancelled during its first attempt with a fallback left
\* untried
C16_Witness ==
    \E r \in Requests :
        /\ req[r].pc = "done"
        /\ req[r].result.error_type = "CancelledError"
        /\ req[r].i < Len(req[r].chain)
        /\ req[r].attempts = <<>>
        /\ \A p \in Providers : breaker[p] = NewBreaker

\* C17: a complete() call that was cancelled has still written its request
\* log (the store willing).
C17_CancelledIsLogged ==
    \A r \in Requests :
        (Cancelled(r) /\ req[r].log_store_ok) => req[r].log.written

\* C18: what complete() gives its caller does not depend on the log store:
\* the provider error when all candidates failed, the response of the
\* candidate that succeeded otherwise.
C18_LogFailureNotShadowing ==
    \A r \in Requests :
        Executed(r) =>
            IF req[r].i > Len(req[r].chain)
            THEN req[r].result = ProviderError(500, "all_fallbacks_failed")
            ELSE req[r].result = Response(req[r].chain[req[r].i], req[r].chain[req[r].i])

\* A request with RAG succeeded although the store took neither its request
\* log nor its RAG log
C18_Witness ==
    \E r \in Requests :
        /\ Executed(r)
        /\ req[r].rag
        /\ ~req[r].log_store_ok
        /\ ~req[r].rag_store_ok
        /\ req[r].result.kind = "response"
        /\ ~req[r].log.written
        /\ ~req[r].rag_log.written

\* C19: for every RAG log complete() has written there is a request log of
\* the same call whose id is the request_id of the RAG log.
C19_RagLogJoinsRequestLog ==
    \A r \in Requests :
        (req[r].rag_log.written /\ req[r].log_store_ok)
        => (req[r].log.written /\ req[r].log.id = req[r].rag_log.request_id)

\* C20: a complete() call with RAG active has written a RAG log once it has
\* ended (the store willing), whether a candidate succeeded or all failed.
C20_RagActiveIsLogged ==
    \A r \in Requests :
        (Executed(r) /\ req[r].rag /\ req[r].log_store_ok /\ req[r].rag_store_ok)
        => req[r].rag_log.written

(***************************************************************************)
(* Properties of the error policy (checked under Spec)                     *)
(***************************************************************************)
\* The upstream events that end an adapter call in a typed provider error
TypedErrors == {up \in Upstream : adapter_complete_try(up).exc # "return"}

\* The tag of the taxonomy for an upstream event
AdapterTag(up) ==
    IF up.ev = "status" THEN _categorize_error(up.code)
    ELSE IF up.ev = "TimeoutException" THEN "timeout"
    ELSE "network"

\* The tags that count toward the breaker
CountedTags == {"server_error", "timeout", "network"}

\* C32: for an attempt that ends in a typed provider error, the unary executor
\* appends an attempt carrying the adapter's tag, records a breaker failure
\* for the provider if and only if the tag is server_error, timeout or network,
\* and goes on with the next candidate.
C32_TypedErrorPolicy ==
    [][\A r \in Requests : \A up \in TypedErrors :
          AttemptReturns(r, up)
          => /\ Len(req'[r].attempts) = Len(req[r].attempts) + 1
             /\ LastAttempt(req'[r]).error_type = AdapterTag(up)
             /\ (breaker'[ProviderOf(r)] = record_failure(breaker[ProviderOf(r)], now))
                    <=> (AdapterTag(up) \in CountedTags)
             /\ (breaker'[ProviderOf(r)] = breaker[ProviderOf(r)])
                    <=> (AdapterTag(up) \notin CountedTags)
             /\ req'[r].pc = "loop"
             /\ req'[r].i = req[r].i + 1]_vars

\* The part of C32 the executor keeps: the attempt carries the tag of the
\* error the adapter raised, and the next candidate is tried
C32_AttemptAppendedAndContinued ==
    [][\A r \in Requests : \A up \in TypedErrors :
          AttemptReturns(r, up)
          => /\ Len(req'[r].attempts) = Len(req[r].attempts) + 1
             /\ LastAttempt(req'[r]).error_type = adapter_complete(up).error_type
             /\ req'[r].pc = "loop"
             /\ req'[r].i = req[r].i + 1]_vars

(***************************************************************************)
(* Order of the attempts of one request (checked under Spec)               *)
(***************************************************************************)
\* The attempt records of rq are in chain order, one per position at most,
\* each for the model at its position, and only the last can be a success
OrderedAttempts(rq) ==
    \A k \in 1..Len(rq.attempts) :
        /\ rq.attempts[k].attempt_n \in 1..Len(rq.chain)
        /\ rq.attempts[k].model_id = rq.chain[rq.attempts[k].attempt_n]
        /\ k < Len(rq.attempts)
              => /\ rq.attempts[k].attempt_n < rq.attempts[k + 1].attempt_n
                 /\ rq.attempts[k].error_type # NoneStr

\* Every position before rq.i has ended in a failure or a skip: its model is
\* missing or it has an attempt record with an error tag
EarlierEnded(rq) ==
    \A k \in 1..(rq.i - 1) :
        \/ ~validate_model_exists(registry, rq.chain[k])
        \/ \E j \in 1..Len(rq.attempts) :
              rq.attempts[j].attempt_n = k /\ rq.attempts[j].error_type # NoneStr

\* C33: within one request the attempts are totally ordered in chain order:
\* at most one adapter call is in flight, the call for a candidate starts only
\* after the attempt for the previous candidate has ended in a failure or a
\* skip, every position of the chain is attempted at most once, and no
\* candidate after the successful one is attempted.
C33_AttemptsSequential ==
    [][\A r \in Requests :
          Unary(req[r]) =>
            /\ Unary(req'[r]) => OrderedAttempts(req'[r])
            /\ (req'[r].pc = "await" /\ req'[r] # req[r])
                  => /\ req[r].pc = "loop"
                     /\ req'[r].i = req[r].i
                     /\ req'[r].attempts = req[r].attempts
                     /\ EarlierEnded(req[r])
                     /\ \A j \in 1..Len(req[r].attempts) :
                           /\ req[r].attempts[j].attempt_n < req[r].i
                           /\ req[r].attempts[j].error_type # NoneStr
            /\ (req[r].pc = "await" /\ req'[r] # req[r])
                  => \/ req'[r].pc = "loop" /\ req'[r].i = req[r].i + 1
                     \/ req'[r].pc = "done" /\ req'[r].i = req[r].i
            /\ (req[r].pc = "done" /\ req'[r] # req[r])
                  => req'[r].attempts = <<>> /\ req'[r].i = 1]_vars

\* The same model is in the chain twice: the call at position 1 timed out and
\* the call at position 2 returned the response
C33_Witness ==
    \E r \in Requests :
        /\ Unary(req[r])
        /\ req[r].chain = <<"a", "a">>
        /\ req[r].result.kind = "response"
        /\ req[r].i = 2
        /\ Len(req[r].attempts) = 2
        /\ req[r].attempts[1].attempt_n = 1
        /\ req[r].attempts[1].error_type = "timeout"
        /\ req[r].attempts[2].attempt_n = 2
        /\ req[r].attempts[2].status_code = 200

(***************************************************************************)
(* The streaming executor (checked under Spec)                             *)
(***************************************************************************)
\* C34: the streaming executor updates the breaker by the policy of the unary
\* executor: for every failure before the first chunk, stream_with_fallback
\* records a breaker failure for the provider exactly when
\* execute_with_fallback would for the same failure, and it records a breaker
\* success when the candidate completes.
C34_StreamPolicyIsUnaryPolicy ==
    [][\A r \in Requests :
          /\ \A up \in Upstream :
                (StreamOpens(r, up) /\ stream_open(up).exc # "return")
                => IF UnaryErrorCounts(stream_open(up))
                   THEN breaker'[ProviderOf(r)] = record_failure(breaker[ProviderOf(r)], now)
                   ELSE breaker' = breaker
          /\ StreamEnds(r)
                => breaker'[ProviderOf(r)] = record_success(breaker[ProviderOf(r)])]_vars

\* The part of C34 that holds: the two executors agree on every failure
\* before the first chunk other than a timeout of the adapter, and on success
C34_StreamPolicyButTimeout ==
    [][\A r \in Requests :
          /\ \A up \in Upstream :
                (StreamOpens(r, up) /\ stream_open(up).exc # "return"
                    /\ stream_open(up).error_type # "timeout")
                => IF UnaryErrorCounts(stream_open(up))
                   THEN breaker'[ProviderOf(r)] = record_failure(breaker[ProviderOf(r)], now)
                   ELSE breaker' = breaker
          /\ StreamEnds(r)
                => breaker'[ProviderOf(r)] = record_success(breaker[ProviderOf(r)])]_vars


\* The upstream rejects the streaming call with a non-200 status
Rejections == {up \in Upstream : up.ev = "status" /\ up.code # 200}

\* The chunks the caller received all come from one candidate
ChunksOfOneCandidate(rq) ==
    \A j, k \in 1..Len(rq.chunks) : rq.chunks[j] = rq.chunks[k]

\* C35: in stream_with_fallback, when the upstream of a candidate rejects the
\* stream with a non-200 status before any chunk, the executor goes on with
\* the next candidate; the caller receives the chunks of the first candidate
\* whose stream opens, and all_fallbacks_failed is raised only when no
\* candidate's stream could be opened.
C35_StreamFallback ==
    [][\A r \in Requests :
          /\ \A up \in Rejections :
                StreamOpens(r, up) => req'[r].pc = "loop" /\ req'[r].i = req[r].i + 1
          /\ req'[r].kind = "stream" => ChunksOfOneCandidate(req'[r])
          /\ (req[r].kind = "stream" /\ AllFailed(r)) => req[r].chunks = <<>>]_vars

\* The part of C35 that holds: a stream rejected before any chunk makes the
\* executor go on with the next candidate, with nothing yielded for it
C35_RejectedStreamFallsBack ==
    [][\A r \in Requests : \A up \in Rejections :
          StreamOpens(r, up)
          => /\ req'[r].pc = "loop"
             /\ req'[r].i = req[r].i + 1
             /\ req'[r].chunks = req[r].chunks]_vars

(***************************************************************************)
(* Candidates missing from the registry (checked under Spec)               *)
(***************************************************************************)
\* The candidate request r is at is not in the registry
AtMissingModel(r) ==
    /\ req[r].pc = "loop"
    /\ req[r].i <= Len(req[r].chain)
    /\ ~validate_model_exists(registry, req[r].chain[req[r].i])

\* The candidate at rq.i is the first of the chain that resolves
FirstResolving(rq) ==
    \A k \in 1..(rq.i - 1) : ~validate_model_exists(registry, rq.chain[k])

\* C36: a candidate whose model id is not in the registry is skipped and does
\* not count as an attempt: no attempt record, no breaker touched, the attempt
\* ordinal not advanced; so the first candidate that resolves is attempt 1
\* and, if it succeeds, the returned attempt list is empty and the request is
\* not logged as having used a fallback.
C36_MissingModelIsNoAttempt ==
    [][\A r \in Requests :
          Unary(req[r]) =>
            /\ (AtMissingModel(r) /\ req'[r] # req[r])
                  => /\ req'[r].attempts = req[r].attempts
                     /\ breaker' = breaker
                     /\ req'[r].pc = "loop"
            /\ (req[r].pc = "await" /\ req'[r].result.kind = "response"
                    /\ FirstResolving(req[r]))
                  => /\ req'[r].attempts = <<>>
                     /\ req'[r].log # NoLog => ~req'[r].log.fallback_used]_vars

\* The part of C36 that holds: skipping a missing model adds no attempt
\* record and touches no breaker
C36_MissingModelLeavesNoRecord ==
    [][\A r \in Requests :
          (Unary(req[r]) /\ AtMissingModel(r) /\ req'[r] # req[r])
          => /\ req'[r].attempts = req[r].attempts
             /\ breaker' = breaker
             /\ req'[r].pc = "loop"
             /\ req'[r].i = req[r].i + 1]_vars

(***************************************************************************)
(* The admin reset of a breaker (checked under Spec)                       *)
(***************************************************************************)
\* C37: after the admin reset of the breaker of a provider returns, the
\* breaker is closed with failure_count = 0 and the next can_attempt for the
\* provider returns true, whatever state the breaker was in before.
C37_ResetCloses ==
    [][\A p \in Providers :
          reset_circuit_breaker(p)
          => /\ breaker'[p].state = "closed"
             /\ breaker'[p].failure_count = 0
             /\ can_attempt(breaker'[p], now').ret]_vars

\* The part of C37 that holds: the reset clears failure_count, and it leaves
\* closed a breaker that was closed or half_open
C37_ResetClearsCount ==
    [][\A p \in Providers :
          reset_circuit_breaker(p)
          => /\ breaker'[p].failure_count = 0
             /\ breaker[p].state \in {"closed", "half_open"}
                   => /\ breaker'[p].state = "closed"
                      /\ can_attempt(breaker'[p], now').ret]_vars

Recovered(p) == breaker[p].state = "closed" /\ breaker[p].failure_count = 0

\* C39: a breaker always recovers: whatever state it has reached, if from
\* some point on every attempt on the provider succeeds, time keeps advancing
\* and requests for the provider keep arriving, the breaker eventually is
\* closed with failure_count = 0 and stays closed.
C39_BreakerRecovers == <>[]Recovered("p1")

\* Attempts no longer fail and the breaker is closed with no failure counted,
\* while a request that was refused by the open breaker has not yet been
\* followed by another
C39_Witness ==
    /\ ~CanFail
    /\ Recovered("p1")
    /\ \E r \in Requests :
          /\ req[r].pc = "done"
          /\ req[r].result.error_type = "all_fallbacks_failed"
          /\ LastAttempt(req[r]).error_type = "circuit_breaker_open"

====
